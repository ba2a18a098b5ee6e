-------------------------- MODULE Accounting_proofs --------------------------
(***************************************************************************)
(* The replay and what an audit may claim of it.                           *)
(*                                                                         *)
(* First, for every set of fills, sizes, prices and fees: the types, and   *)
(* that the episodes are flat to flat and have one key each, through every *)
(* opening, increase, reduction, close, reversal and settlement.           *)
(*                                                                         *)
(* Then, inventory shown as live is live, for every exchange and however   *)
(* the routes fail; and, when fills of one instant execute in the order of *)
(* their ids and every fill parses, a claimed position is one the account  *)
(* held and an importable episode is a real one.                           *)
(*                                                                         *)
(* The two routes are walked at two moments and the exchange moves in      *)
(* between, but what they serve together is a prefix of its executions:    *)
(* the archive adds to the live walk only executions older than a cutoff   *)
(* that never goes back.  The replay follows that prefix one execution at  *)
(* a time, so after each its ledgers hold what the books held, and its     *)
(* episodes are the true spans as far as they have come.                   *)
(***************************************************************************)
EXTENDS Accounting, TLAPS, WellFoundedInduction

\* What every ledger satisfies, and what its keys are taken from.
Keys(ledger) == {e.opening : e \in Episodes(ledger)}
Sound(ledger) ==
    /\ ledger \in MarketLedger /\ FlatToFlat(ledger) /\ OneKeyEach(ledger)
    /\ Keys(ledger) \subseteq FillIds

---------------------------------------------------------------------------
(* Lemmas about the parts of a replay step.                                *)

\* A fill is worth a positive number of contracts, a price and a fee.
LEMMA FillWorth ==
    ASSUME NEW fill \in Fill
    PROVE  /\ Count(fill) \in Nat \ {0} /\ Signed(fill) \in Int
           /\ Signed(fill) # 0 /\ Abs(Signed(fill)) = Count(fill)
           /\ Price(fill) \in Int /\ Fee(fill) \in Int
           /\ Fee(fill) # None => Fee(fill) \in Nat
           /\ fill.id \in FillIds /\ fill.time \in Nat
  <1>1. fill.id \in FillIds /\ fill.time \in Nat /\ fill.exposure \in {"yes", "no"}
    BY ClockAndBounds DEF Fill, Times
  <1>2. Count(fill) \in Nat \ {0}
    BY <1>1, CountsArePositive DEF Count
  <1>3. Price(fill) \in Int /\ Fee(fill) \in Int /\ (Fee(fill) # None => Fee(fill) \in Nat)
    <2>1. PriceOf[fill.id] \in 0..One \cup {-1} /\ FeeOf[fill.id] \in Nat \cup {-1}
      BY <1>1, MoneyIsWhole DEF None
    <2> QED
      BY <2>1 DEF Price, Fee, None
  <1> QED
    BY <1>1, <1>2, <1>3 DEF Signed, Abs

\* The empty episode is an episode that no fill opened.
LEMMA EmptyEpisode ==
    /\ NoEpisode \in Episode /\ NoEpisode.opening = 0
  BY DEF NoEpisode, NewEpisode, Episode

\* A fresh episode opened nothing yet.
LEMMA FreshEpisode ==
    ASSUME NEW opening \in FillIds, NEW sign \in {-1, 0, 1}, NEW time \in Nat,
           NEW e, e = NewEpisode(opening, sign, time)
    PROVE  /\ e \in Episode /\ e.opening = opening /\ e.sign = sign
           /\ e.opened = 0 /\ e.closed = 0 /\ e.closedBy = "nothing"
  BY DEF NewEpisode, Episode

\* _record adds an execution to an episode and keeps what it is of.
LEMMA Recorded ==
    ASSUME NEW episode \in Episode, NEW fill \in Fill, NEW opened \in Nat, NEW closed \in Nat,
           NEW gain \in Int, NEW after \in Int, NEW basisKnown, NEW chargeFee,
           NEW e, e = Executed(episode, fill, opened, closed, gain, after, basisKnown, chargeFee)
    PROVE  /\ e \in Episode
           /\ e.opening = episode.opening /\ e.sign = episode.sign
           /\ e.closedBy = episode.closedBy /\ e.remaining = Abs(after)
           /\ e.opened = episode.opened + opened /\ e.closed = episode.closed + closed
  <1> DEFINE fills == episode.fills \cup {fill.id}
             open == episode.opened + opened
             close == episode.closed + closed
             left == Abs(after)
             realized == episode.realized + gain
             cost == episode.costComplete /\ basisKnown
             fees == IF chargeFee /\ Fee(fill) # None THEN episode.fees + Fee(fill) ELSE episode.fees
             fee == episode.feeComplete /\ chargeFee /\ Fee(fill) # None
  <1>1. fill.id \in FillIds /\ fill.time \in Nat /\ Fee(fill) \in Int
    BY FillWorth
  <1>2. /\ episode.fills \in SUBSET FillIds /\ episode.opened \in Nat /\ episode.closed \in Nat
        /\ episode.realized \in Int /\ episode.costComplete \in BOOLEAN
        /\ episode.fees \in Int /\ episode.feeComplete \in BOOLEAN
    BY DEF Episode
  <1>3. /\ fills \in SUBSET FillIds /\ open \in Nat /\ close \in Nat /\ left \in Nat
        /\ realized \in Int /\ fees \in Int
    BY <1>1, <1>2 DEF Abs
  <1>4. cost \in BOOLEAN /\ fee \in BOOLEAN
    OBVIOUS
  <1>5. e = [episode EXCEPT !.fills = fills, !.opened = open, !.closed = close,
                            !.remaining = left, !.realized = realized, !.costComplete = cost,
                            !.fees = fees, !.feeComplete = fee, !.last = fill.time]
    BY Zenon DEF Executed
  <1>6. left = Abs(after) /\ open = episode.opened + opened /\ close = episode.closed + closed
    OBVIOUS
  <1> HIDE DEF fills, open, close, left, realized, cost, fees, fee
  <1>7. e \in Episode
    BY <1>1, <1>3, <1>4, <1>5, ZenonT(60) DEF Episode
  <1>8. /\ e.opening = episode.opening /\ e.sign = episode.sign
        /\ e.closedBy = episode.closedBy /\ e.remaining = left
        /\ e.opened = open /\ e.closed = close
    BY <1>5, Zenon DEF Episode
  <1> QED
    BY <1>6, <1>7, <1>8

\* A realized gain is an amount.
LEMMA GainIsMoney ==
    ASSUME NEW ledger \in MarketLedger, NEW fill \in Fill, NEW closed \in Nat
    PROVE  Gain(ledger, fill, closed) \in Int /\ Priced(ledger, fill) \in BOOLEAN
  <1>1. Price(fill) \in Int
    BY FillWorth
  <1>2. ledger.average \in Int /\ ledger.position \in Int /\ ledger.costComplete \in BOOLEAN
    BY DEF MarketLedger
  <1>3. Sign(ledger.position) \in Int
    BY <1>2 DEF Sign
  <1> QED
    BY <1>1, <1>2, <1>3 DEF Gain, Priced, None

---------------------------------------------------------------------------
(* The kinds of step.                                                      *)

\* OPEN, from a flat ledger with no episode open.
LEMMA OpeningIsSound ==
    ASSUME NEW ledger, Sound(ledger), ledger.position = 0,
           NEW fill \in Fill, fill.id \notin Keys(ledger),
           NEW after \in Int, after # 0, NEW chargeFee \in BOOLEAN,
           NEW l, l = Opening(ledger, fill, after, chargeFee)
    PROVE  Sound(l) /\ Keys(l) \subseteq Keys(ledger) \cup {fill.id}
  <1> DEFINE new == NewEpisode(fill.id, Sign(after), fill.time)
             known == Price(fill) # None
             e == Executed(new, fill, Abs(after), 0, 0, after, known, chargeFee)
  <1>1. ledger \in MarketLedger /\ ledger.current = NoEpisode
    BY DEF Sound, FlatToFlat
  <1>2. /\ Price(fill) \in Int /\ fill.id \in FillIds /\ fill.time \in Nat
        /\ Sign(after) \in {-1, 0, 1} /\ Abs(after) \in Nat /\ Abs(after) # 0
    BY FillWorth DEF Sign, Abs
  <1>3. new = NewEpisode(fill.id, Sign(after), fill.time) /\ known \in BOOLEAN
    OBVIOUS
  <1>4. l = [ledger EXCEPT !.position = after, !.average = Price(fill), !.costComplete = known,
                           !.current = e]
    BY DEF Opening
  <1>5. e = Executed(new, fill, Abs(after), 0, 0, after, known, chargeFee)
    OBVIOUS
  <1> HIDE DEF new, known, e
  <1>6. /\ new \in Episode /\ new.opening = fill.id /\ new.sign = Sign(after)
        /\ new.opened = 0 /\ new.closed = 0 /\ new.closedBy = "nothing"
    BY <1>2, <1>3, FreshEpisode
  <1>7. /\ e \in Episode /\ e.opening = fill.id /\ e.sign = Sign(after)
        /\ e.closedBy = "nothing" /\ e.remaining = Abs(after)
        /\ e.opened = Abs(after) /\ e.closed = 0
    <2>0. 0 \in Nat /\ 0 \in Int
      OBVIOUS
    <2>1. /\ e \in Episode /\ e.opening = new.opening /\ e.sign = new.sign
          /\ e.closedBy = new.closedBy /\ e.remaining = Abs(after)
          /\ e.opened = new.opened + Abs(after) /\ e.closed = new.closed + 0
      BY <1>2, <1>3, <1>5, <1>6, <2>0, Recorded
    <2> QED
      BY <1>2, <1>6, <2>1
  <1>8. /\ l \in MarketLedger /\ l.position = after /\ l.current = e /\ l.past = ledger.past
    BY <1>1, <1>2, <1>3, <1>4, <1>7, Zenon DEF MarketLedger
  <1>9. e # NoEpisode
    BY <1>2, <1>7, EmptyEpisode, IdsArePositive
  <1>10. Episodes(l) = Episodes(ledger) \cup {e} /\ Episodes(ledger) = ledger.past
    BY <1>1, <1>8, <1>9 DEF Episodes
  <1>11. FlatToFlat(l)
    BY <1>2, <1>7, <1>8, <1>9 DEF Sound, FlatToFlat
  <1>12. OneKeyEach(l)
    BY <1>7, <1>10 DEF Sound, OneKeyEach, Keys
  <1>13. Keys(l) \subseteq Keys(ledger) \cup {fill.id}
    BY <1>7, <1>10 DEF Keys
  <1>14. Keys(l) \subseteq FillIds
    BY <1>2, <1>13 DEF Sound
  <1> QED
    BY <1>8, <1>11, <1>12, <1>13, <1>14, Zenon DEF Sound

\* The end of the open episode: whatever closed it, what it closed is all it
\* had left.
LEMMA EndingIsSound ==
    ASSUME NEW ledger, Sound(ledger), ledger.position # 0, NEW e \in Episode,
           e.opening = ledger.current.opening, e.opened = ledger.current.opened,
           e.closed = ledger.current.closed + Abs(ledger.position),
           e.remaining = 0, e.closedBy # "nothing",
           NEW l \in MarketLedger, l.position = 0, l.current = NoEpisode,
           l.past = ledger.past \cup {e}
    PROVE  Sound(l) /\ Keys(l) \subseteq Keys(ledger) /\ l.position = 0
  <1>1. /\ ledger \in MarketLedger /\ ledger.current \in Episode /\ ledger.position \in Int
        /\ ledger.current # NoEpisode
    BY DEF Sound, FlatToFlat, MarketLedger
  <1>2. Abs(ledger.position) \in Nat /\ Abs(ledger.position) # 0
    BY <1>1 DEF Abs
  <1>3. e.opened = e.closed /\ e.opened > 0
    <2>1. ledger.current.opened \in Nat /\ ledger.current.closed \in Nat
      BY <1>1 DEF Episode
    <2>2. ledger.current.opened - ledger.current.closed = Abs(ledger.position)
      BY <1>1 DEF Sound, FlatToFlat
    <2> QED
      BY <1>2, <2>1, <2>2
  <1>5. FlatToFlat(l)
    BY <1>3 DEF Sound, FlatToFlat
  <1>6. Episodes(l) = ledger.past \cup {e} /\ Episodes(ledger) = ledger.past \cup {ledger.current}
    BY <1>1 DEF Episodes
  <1>7. Keys(l) \subseteq Keys(ledger)
    BY <1>6 DEF Keys
  <1>8. OneKeyEach(l)
    <2>1. ledger.current.closedBy = "nothing" /\ \A p \in ledger.past : p.closedBy # "nothing"
      BY <1>1 DEF Sound, FlatToFlat
    <2>2. \A p \in ledger.past : p.opening # ledger.current.opening
      BY <1>6, <2>1 DEF Sound, OneKeyEach
    <2> QED
      BY <2>2, <1>6 DEF Sound, OneKeyEach
  <1>9. Keys(l) \subseteq FillIds
    BY <1>7 DEF Sound
  <1> QED
    BY <1>5, <1>7, <1>8, <1>9, Zenon DEF Sound

\* CLOSE, of whatever is open.
LEMMA ClosingIsSound ==
    ASSUME NEW ledger, Sound(ledger), ledger.position # 0, NEW fill \in Fill,
           NEW chargeFee \in BOOLEAN, NEW l, l = Closing(ledger, fill, chargeFee)
    PROVE  Sound(l) /\ Keys(l) \subseteq Keys(ledger) /\ l.position = 0
  <1> DEFINE closed == Abs(ledger.position)
             gain == Gain(ledger, fill, closed)
             priced == Priced(ledger, fill)
             r == Executed(ledger.current, fill, 0, closed, gain, 0, priced, chargeFee)
             e == [r EXCEPT !.closedBy = "fill"]
  <1>1. /\ ledger \in MarketLedger /\ ledger.current \in Episode /\ ledger.position \in Int
    BY DEF Sound, MarketLedger
  <1>2. closed \in Nat /\ closed = Abs(ledger.position)
    BY <1>1 DEF Abs
  <1>3. l = [ledger EXCEPT !.position = 0, !.average = -1, !.costComplete = TRUE,
                           !.current = NoEpisode, !.past = @ \cup {e}]
    BY DEF Closing, None
  <1>4. r = Executed(ledger.current, fill, 0, closed, gain, 0, priced, chargeFee)
    OBVIOUS
  <1>5. gain \in Int /\ priced \in BOOLEAN
    <2> HIDE DEF closed
    <2> QED
      BY <1>1, <1>2, GainIsMoney
  <1> HIDE DEF closed, gain, priced, r
  <1>6. /\ r \in Episode /\ r.opening = ledger.current.opening /\ r.remaining = 0
        /\ r.opened = ledger.current.opened /\ r.closed = ledger.current.closed + closed
    <2>0. 0 \in Nat /\ 0 \in Int
      OBVIOUS
    <2>1. /\ r \in Episode /\ r.opening = ledger.current.opening /\ r.remaining = Abs(0)
          /\ r.opened = ledger.current.opened + 0 /\ r.closed = ledger.current.closed + closed
      BY <1>1, <1>2, <1>4, <1>5, <2>0, Recorded
    <2> QED
      BY <2>1, <1>1 DEF Abs, Episode
  <1>7. /\ e \in Episode /\ e.opening = r.opening /\ e.remaining = r.remaining
        /\ e.opened = r.opened /\ e.closed = r.closed /\ e.closedBy = "fill"
    BY <1>6 DEF Episode
  <1> HIDE DEF e
  <1> QED
    <2>1. /\ e.opening = ledger.current.opening /\ e.opened = ledger.current.opened
          /\ e.closed = ledger.current.closed + Abs(ledger.position)
          /\ e.remaining = 0 /\ e.closedBy # "nothing"
      BY <1>2, <1>6, <1>7
    <2>2. -1 \in Int /\ 0 \in Int /\ ledger.past \cup {e} \in SUBSET Episode
      BY <1>1, <1>7 DEF MarketLedger
    <2>3. /\ l \in MarketLedger /\ l.position = 0 /\ l.current = NoEpisode
          /\ l.past = ledger.past \cup {e}
      BY <2>2, <1>1, <1>3, EmptyEpisode, Zenon DEF MarketLedger
    <2> QED
      BY <2>1, <2>3, <1>7, EndingIsSound

\* The open episode goes on, on its side, with what the position is now.
LEMMA GoingOnIsSound ==
    ASSUME NEW ledger, Sound(ledger), ledger.position # 0, NEW e \in Episode,
           e.opening = ledger.current.opening, e.closedBy = "nothing",
           NEW l \in MarketLedger, l.position # 0, l.current = e, l.past = ledger.past,
           e.sign = Sign(l.position), e.remaining = Abs(l.position),
           e.opened - e.closed = Abs(l.position)
    PROVE  Sound(l) /\ Keys(l) \subseteq Keys(ledger)
  <1>1. /\ ledger \in MarketLedger /\ ledger.current \in Episode /\ ledger.current # NoEpisode
        /\ ledger.current.closedBy = "nothing" /\ \A p \in ledger.past : p.closedBy # "nothing"
    BY DEF Sound, FlatToFlat, MarketLedger
  <1>2. Episodes(ledger) = ledger.past \cup {ledger.current}
    BY <1>1 DEF Episodes
  <1>3. e # NoEpisode
    <2>1. ledger.current.opening \in FillIds
      BY <1>2 DEF Sound, Keys
    <2> QED
      BY <2>1, EmptyEpisode, IdsArePositive
  <1>4. Episodes(l) = ledger.past \cup {e}
    BY <1>3 DEF Episodes
  <1>5. FlatToFlat(l)
    BY <1>3 DEF Sound, FlatToFlat
  <1>6. Keys(l) \subseteq Keys(ledger)
    BY <1>2, <1>4 DEF Keys
  <1>7. OneKeyEach(l)
    <2>1. \A p \in ledger.past : p.opening # ledger.current.opening
      BY <1>1, <1>2 DEF Sound, OneKeyEach
    <2> QED
      BY <2>1, <1>2, <1>4 DEF Sound, OneKeyEach
  <1>8. Keys(l) \subseteq FillIds
    BY <1>6 DEF Sound
  <1> QED
    BY <1>5, <1>6, <1>7, <1>8, Zenon DEF Sound

\* INCREASE.
LEMMA IncreasingIsSound ==
    ASSUME NEW ledger, Sound(ledger), ledger.position # 0, NEW fill \in Fill,
           NEW after, after = ledger.position + Signed(fill),
           Sign(after) = Sign(ledger.position), Abs(after) > Abs(ledger.position),
           NEW l, l = Increasing(ledger, fill, after)
    PROVE  Sound(l) /\ Keys(l) \subseteq Keys(ledger)
  <1> DEFINE known == Price(fill) # None /\ ledger.average # None
             basis == ledger.costComplete /\ known
             notional == ledger.average * Abs(ledger.position) + Price(fill) * Count(fill)
             average == IF known THEN notional \div Abs(after) ELSE None
             charged == TRUE
             e == Executed(ledger.current, fill, Count(fill), 0, 0, after, basis, charged)
  <1>1. /\ ledger \in MarketLedger /\ ledger.current \in Episode /\ ledger.position \in Int
        /\ ledger.average \in Int /\ ledger.current # NoEpisode
    BY DEF Sound, FlatToFlat, MarketLedger
  <1>2. /\ Count(fill) \in Nat /\ Signed(fill) \in Int /\ Price(fill) \in Int
        /\ Signed(fill) = Count(fill) \/ Signed(fill) = -Count(fill)
    BY FillWorth DEF Signed
  <1>3. /\ after \in Int /\ after # 0 /\ Abs(after) \in Nat \ {0} /\ Abs(ledger.position) \in Nat
        /\ Abs(after) = Abs(ledger.position) + Count(fill)
    BY <1>1, <1>2 DEF Abs, Sign
  <1>4. average \in Int /\ basis \in BOOLEAN
    <2>1. notional \in Int
      BY <1>1, <1>2, <1>3
    <2> HIDE DEF notional
    <2>2. notional \div Abs(after) \in Int
      BY <2>1, <1>3
    <2> QED
      BY <2>2 DEF None
  <1>5. l = [ledger EXCEPT !.position = after, !.average = average, !.costComplete = basis,
                           !.current = e]
    BY DEF Increasing
  <1>6. e = Executed(ledger.current, fill, Count(fill), 0, 0, after, basis, charged)
    OBVIOUS
  <1> HIDE DEF charged, known, basis, notional, average, e
  <1>7. /\ e \in Episode /\ e.opening = ledger.current.opening /\ e.sign = ledger.current.sign
        /\ e.closedBy = ledger.current.closedBy /\ e.remaining = Abs(after)
        /\ e.opened = ledger.current.opened + Count(fill) /\ e.closed = ledger.current.closed + 0
    BY <1>1, <1>2, <1>3, <1>6, Recorded
  <1>8. /\ e.closedBy = "nothing" /\ e.sign = Sign(after) /\ e.opened - e.closed = Abs(after)
    <2>1. ledger.current.opened \in Nat /\ ledger.current.closed \in Nat
      BY <1>1 DEF Episode
    <2>2. /\ ledger.current.closedBy = "nothing" /\ ledger.current.sign = Sign(ledger.position)
          /\ ledger.current.opened - ledger.current.closed = Abs(ledger.position)
      BY <1>1 DEF Sound, FlatToFlat
    <2> QED
      BY <1>2, <1>3, <1>7, <2>1, <2>2
  <1>9. /\ l \in MarketLedger /\ l.position = after /\ l.current = e /\ l.past = ledger.past
    BY <1>1, <1>3, <1>4, <1>5, <1>7, Zenon DEF MarketLedger
  <1> QED
    BY <1>3, <1>7, <1>8, <1>9, GoingOnIsSound

\* REDUCE.
LEMMA ReducingIsSound ==
    ASSUME NEW ledger, Sound(ledger), ledger.position # 0, NEW fill \in Fill,
           NEW after, after = ledger.position + Signed(fill),
           Sign(after) = Sign(ledger.position), ~(Abs(after) > Abs(ledger.position)),
           NEW l, l = Reducing(ledger, fill, after)
    PROVE  Sound(l) /\ Keys(l) \subseteq Keys(ledger)
  <1> DEFINE priced == Priced(ledger, fill)
             closed == Count(fill)
             gain == Gain(ledger, fill, closed)
             charged == TRUE
             e == Executed(ledger.current, fill, 0, closed, gain, after, priced, charged)
  <1>1. /\ ledger \in MarketLedger /\ ledger.current \in Episode /\ ledger.position \in Int
        /\ ledger.current # NoEpisode
    BY DEF Sound, FlatToFlat, MarketLedger
  <1>2. /\ closed \in Nat /\ Signed(fill) \in Int
        /\ Signed(fill) = closed \/ Signed(fill) = -closed
    BY FillWorth DEF Signed
  <1>3. /\ after \in Int /\ after # 0 /\ Abs(after) \in Nat /\ Abs(ledger.position) \in Nat
        /\ Abs(after) = Abs(ledger.position) - closed
    BY <1>1, <1>2, FillWorth DEF Abs, Sign
  <1>4. gain \in Int /\ priced \in BOOLEAN
    <2> HIDE DEF closed
    <2> QED
      BY <1>1, <1>2, GainIsMoney
  <1>5. l = [ledger EXCEPT !.position = after, !.costComplete = priced, !.current = e]
    BY DEF Reducing
  <1>6. e = Executed(ledger.current, fill, 0, closed, gain, after, priced, charged)
    OBVIOUS
  <1> HIDE DEF charged, priced, closed, gain, e
  <1>7. /\ e \in Episode /\ e.opening = ledger.current.opening /\ e.sign = ledger.current.sign
        /\ e.closedBy = ledger.current.closedBy /\ e.remaining = Abs(after)
        /\ e.opened = ledger.current.opened + 0 /\ e.closed = ledger.current.closed + closed
    BY <1>1, <1>2, <1>3, <1>4, <1>6, Recorded
  <1>8. /\ e.closedBy = "nothing" /\ e.sign = Sign(after) /\ e.opened - e.closed = Abs(after)
    <2>1. ledger.current.opened \in Nat /\ ledger.current.closed \in Nat
      BY <1>1 DEF Episode
    <2>2. /\ ledger.current.closedBy = "nothing" /\ ledger.current.sign = Sign(ledger.position)
          /\ ledger.current.opened - ledger.current.closed = Abs(ledger.position)
      BY <1>1 DEF Sound, FlatToFlat
    <2> QED
      BY <1>2, <1>3, <1>7, <2>1, <2>2
  <1>9. /\ l \in MarketLedger /\ l.position = after /\ l.current = e /\ l.past = ledger.past
    BY <1>1, <1>3, <1>4, <1>5, <1>7, Zenon DEF MarketLedger
  <1> QED
    BY <1>3, <1>7, <1>8, <1>9, GoingOnIsSound

\* apply_fill, whatever the fill is to the ledger: a reversal is the close of
\* one side and the opening of the other.
LEMMA ApplyingIsSound ==
    ASSUME NEW ledger, Sound(ledger), NEW fill \in Fill, fill.id \notin Keys(ledger)
    PROVE  /\ Sound(Applied(ledger, fill))
           /\ Keys(Applied(ledger, fill)) \subseteq Keys(ledger) \cup {fill.id}
  <1> DEFINE before == ledger.position
             after == before + Signed(fill)
             l == Applied(ledger, fill)
  <1>1. ledger \in MarketLedger /\ before \in Int
    BY DEF Sound, MarketLedger
  <1>2. Signed(fill) \in Int /\ Signed(fill) # 0 /\ after \in Int
    BY <1>1, FillWorth
  <1>a. after = before + Signed(fill)
    OBVIOUS
  <1>3. CASE before = 0
    <2> DEFINE charged == TRUE
    <2>1. l = Opening(ledger, fill, after, charged) /\ charged \in BOOLEAN
      BY <1>3 DEF Applied
    <2>2. after # 0
      BY <1>1, <1>2, <1>3
    <2> HIDE DEF l, after, charged
    <2>3. ledger.position = 0 /\ after \in Int
      BY <1>2, <1>3 DEF after
    <2>4. Sound(l) /\ Keys(l) \subseteq Keys(ledger) \cup {fill.id}
      BY <2>1, <2>2, <2>3, OpeningIsSound
    <2> QED
      BY <2>4 DEF l
  <1>4. CASE before # 0 /\ after = 0
    <2>0. before # 0 /\ after = 0 /\ Sign(after) # -Sign(before)
      BY <1>1, <1>4 DEF Sign
    <2> HIDE DEF after
    <2>1. l = Closing(ledger, fill, TRUE)
      BY <2>0 DEF Applied, after
    <2> HIDE DEF l
    <2> QED
      BY <2>1, <1>4, ClosingIsSound DEF l
  <1>5. CASE before # 0 /\ after # 0 /\ Sign(after) # Sign(before)
    <2> DEFINE mid == Closing(ledger, fill, FALSE)
    <2>1. Sign(after) = -Sign(before) /\ Sign(before) # 0
      BY <1>1, <1>2, <1>5 DEF Sign
    <2>2. l = Opening(mid, fill, after, FALSE)
      BY <2>1, <1>5 DEF Applied, Reversing
    <2>3. mid = Closing(ledger, fill, FALSE)
      OBVIOUS
    <2> HIDE DEF l, mid, after
    <2>4. Sound(mid) /\ Keys(mid) \subseteq Keys(ledger) /\ mid.position = 0
      BY <2>3, <1>5, ClosingIsSound
    <2>5. fill.id \notin Keys(mid)
      BY <2>4
    <2>6. Sound(l) /\ Keys(l) \subseteq Keys(mid) \cup {fill.id}
      BY <2>2, <2>4, <2>5, <1>2, <1>5, OpeningIsSound
    <2> QED
      BY <2>4, <2>6 DEF l
  <1>6. CASE before # 0 /\ after # 0 /\ Sign(after) = Sign(before)
    <2>1. Sign(after) # -Sign(before)
      BY <1>1, <1>2, <1>6 DEF Sign
    <2>2. CASE Abs(after) > Abs(before)
      <3>1. l = Increasing(ledger, fill, after)
        BY <2>1, <2>2, <1>6 DEF Applied
      <3> HIDE DEF l, after
      <3> QED
        BY <3>1, <2>2, <1>6, <1>a, IncreasingIsSound DEF l
    <2>3. CASE ~(Abs(after) > Abs(before))
      <3>1. l = Reducing(ledger, fill, after)
        BY <2>1, <2>3, <1>6 DEF Applied
      <3> HIDE DEF l, after
      <3> QED
        BY <3>1, <2>3, <1>6, <1>a, ReducingIsSound DEF l
    <2> QED
      BY <2>2, <2>3
  <1> QED
    BY <1>3, <1>4, <1>5, <1>6

\* apply_settlement, of a row that is not refused.
LEMMA SettlingIsSound ==
    ASSUME NEW ledger, Sound(ledger), ledger.position # 0, NEW row \in Settlement,
           NEW l, l = Settled(ledger, row)
    PROVE  Sound(l) /\ Keys(l) \subseteq Keys(ledger)
  <1> DEFINE c == ledger.current
             known == ledger.costComplete /\ ledger.average # None
             close == c.closed + Abs(ledger.position)
             realized == c.realized + (IF known THEN SettlementGain(ledger, row) ELSE 0)
             cost == c.costComplete /\ known
             fees == IF row.fee # None THEN c.fees + row.fee ELSE c.fees
             fee == c.feeComplete /\ row.fee # None
             e == [c EXCEPT !.closed = close, !.remaining = 0, !.closedBy = "settlement",
                            !.realized = realized, !.costComplete = cost,
                            !.fees = fees, !.feeComplete = fee, !.last = row.time]
  <1>1. /\ ledger \in MarketLedger /\ c \in Episode /\ ledger.position \in Int
        /\ ledger.average \in Int
    BY DEF Sound, MarketLedger
  <1>2. /\ row.revenue \in Int /\ row.time \in Nat /\ (row.fee # None => row.fee \in Nat)
    <2>1. row.revenue \in Int /\ row.time \in 0..MaxTime /\ row.fee \in SettlementFees
      BY DEF Settlement, Times
    <2>2. row.fee \in Nat \cup {-1}
      BY <2>1, MoneyIsWhole DEF None
    <2> QED
      BY <2>1, <2>2, ClockAndBounds DEF None
  <1>3. Abs(ledger.position) \in Nat
    BY <1>1 DEF Abs
  <1>4. c.closed \in Nat /\ c.realized \in Int /\ c.fees \in Int
    BY <1>1 DEF Episode
  <1>5. SettlementGain(ledger, row) \in Int
    BY <1>1, <1>2, <1>3, MoneyIsWhole DEF SettlementGain
  <1>6. close \in Nat /\ realized \in Int /\ fees \in Int
    BY <1>2, <1>3, <1>4, <1>5
  <1>7. cost \in BOOLEAN /\ fee \in BOOLEAN
    OBVIOUS
  <1>8. l = [ledger EXCEPT !.position = 0, !.average = -1, !.current = NoEpisode,
                           !.past = @ \cup {e}]
    BY Zenon DEF Settled, None
  <1>9. close = c.closed + Abs(ledger.position)
    OBVIOUS
  <1>10. e = [c EXCEPT !.closed = close, !.remaining = 0, !.closedBy = "settlement",
                       !.realized = realized, !.costComplete = cost,
                       !.fees = fees, !.feeComplete = fee, !.last = row.time]
    OBVIOUS
  <1>11. 0 \in Nat /\ 0 \in Int /\ -1 \in Int
    OBVIOUS
  <1> HIDE DEF c, known, close, realized, cost, fees, fee, e
  <1>12. /\ e \in Episode /\ e.opening = c.opening /\ e.opened = c.opened /\ e.closed = close
         /\ e.remaining = 0 /\ e.closedBy = "settlement"
    BY <1>1, <1>2, <1>6, <1>7, <1>10, <1>11, Zenon DEF Episode
  <1>13. ledger.past \cup {e} \in SUBSET Episode
    BY <1>1, <1>12 DEF MarketLedger
  <1>14. /\ l \in MarketLedger /\ l.position = 0 /\ l.current = NoEpisode
         /\ l.past = ledger.past \cup {e}
    BY <1>1, <1>8, <1>11, <1>13, EmptyEpisode, Zenon DEF MarketLedger
  <1>15. /\ e.opening = ledger.current.opening /\ e.opened = ledger.current.opened
         /\ e.closed = ledger.current.closed + Abs(ledger.position)
         /\ e.closedBy # "nothing"
    BY <1>9, <1>12 DEF c
  <1> QED
    BY <1>12, <1>14, <1>15, EndingIsSound

\* _mark_outcome_unprovable changes no quantity.
LEMMA UnresolvedIsSound ==
    ASSUME NEW ledger, Sound(ledger), NEW l, l = Unresolved(ledger)
    PROVE  Sound(l) /\ Keys(l) \subseteq Keys(ledger)
  <1>1. CASE ledger.current = NoEpisode
    BY <1>1 DEF Unresolved
  <1>2. CASE ledger.current # NoEpisode
    <2> DEFINE e == [ledger.current EXCEPT !.outcomeProvable = FALSE]
    <2>1. /\ ledger \in MarketLedger /\ ledger.current \in Episode /\ ledger.position # 0
      BY <1>2 DEF Sound, FlatToFlat, MarketLedger
    <2>2. /\ e \in Episode /\ e.opening = ledger.current.opening
          /\ e.closedBy = ledger.current.closedBy /\ e.sign = ledger.current.sign
          /\ e.remaining = ledger.current.remaining
          /\ e.opened = ledger.current.opened /\ e.closed = ledger.current.closed
      BY <2>1 DEF Episode
    <2>3. l = [ledger EXCEPT !.current = e]
      BY <1>2 DEF Unresolved
    <2> HIDE DEF e
    <2>4. /\ l \in MarketLedger /\ l.position = ledger.position /\ l.current = e
          /\ l.past = ledger.past
      BY <2>1, <2>2, <2>3 DEF MarketLedger
    <2>5. /\ e.closedBy = "nothing" /\ e.sign = Sign(l.position) /\ e.remaining = Abs(l.position)
          /\ e.opened - e.closed = Abs(l.position)
      BY <1>2, <2>2, <2>4 DEF Sound, FlatToFlat
    <2> QED
      BY <2>1, <2>2, <2>4, <2>5, GoingOnIsSound
  <1> QED
    BY <1>1, <1>2

\* _open_episode_authority gives an authority.
LEMMA AuthorityIsKnown ==
    ASSUME NEW ledger
    PROVE  OpenAuthority(ledger) \in {"not_reconciled", "unexplained", "reconciled_current",
                                      "conflicted"}
  <1>1. CASE SettlementEvidence
    BY <1>1 DEF OpenAuthority
  <1>2. CASE ~SettlementEvidence /\ audit.said = "not_asked"
    BY <1>2 DEF OpenAuthority
  <1>3. CASE ~SettlementEvidence /\ audit.said = "absent"
    BY <1>3 DEF OpenAuthority
  <1>4. CASE ~SettlementEvidence /\ audit.said \notin {"not_asked", "absent"}
    BY <1>4 DEF OpenAuthority
  <1> QED
    BY <1>1, <1>2, <1>3, <1>4

\* _assign_authority marks the episodes and changes nothing they count.
LEMMA AuthorisingIsSound ==
    ASSUME NEW ledger, Sound(ledger), NEW open \in {"not_reconciled", "unexplained",
                                                    "reconciled_current", "conflicted"},
           NEW l, l = [ledger EXCEPT
              !.past = {[e EXCEPT !.authority = ClosedAuthority(e)] : e \in @},
              !.current = IF @ = NoEpisode THEN @ ELSE [Covered(@) EXCEPT !.authority = open]]
    PROVE  Sound(l) /\ Keys(l) \subseteq Keys(ledger)
  <1> DEFINE Mark(e) == [e EXCEPT !.authority = ClosedAuthority(e)]
             past == {Mark(e) : e \in ledger.past}
             covered == [ledger.current EXCEPT !.outcomeProvable =
                           @ /\ (SettlementEvidence \/ audit.floor = None
                                 \/ ledger.current.last >= audit.floor)]
             marked == [Covered(ledger.current) EXCEPT !.authority = open]
             current == IF ledger.current = NoEpisode THEN ledger.current ELSE marked
  <1>1. /\ ledger \in MarketLedger /\ ledger.current \in Episode /\ ledger.past \subseteq Episode
    BY DEF Sound, MarketLedger
  <1>2. \A e \in Episode :
            /\ Mark(e) \in Episode /\ Mark(e).opening = e.opening
            /\ Mark(e).closedBy = e.closedBy /\ Mark(e).remaining = e.remaining
            /\ Mark(e).opened = e.opened /\ Mark(e).closed = e.closed
    <2> TAKE e \in Episode
    <2> DEFINE a == ClosedAuthority(e)
    <2>1. a \in {"closed_by_fills", "explained_settled"}
      BY DEF ClosedAuthority
    <2> HIDE DEF a
    <2>2. [e EXCEPT !.authority = a] \in Episode
      BY <2>1 DEF Episode
    <2> QED
      BY <2>2 DEF a, Episode
  <1>3. /\ covered \in Episode /\ covered.opening = ledger.current.opening
        /\ covered.closedBy = ledger.current.closedBy /\ covered.sign = ledger.current.sign
        /\ covered.remaining = ledger.current.remaining
        /\ covered.opened = ledger.current.opened /\ covered.closed = ledger.current.closed
    <2> DEFINE provable == ledger.current.outcomeProvable
                             /\ (SettlementEvidence \/ audit.floor = None
                                 \/ ledger.current.last >= audit.floor)
    <2>1. provable \in BOOLEAN /\ covered = [ledger.current EXCEPT !.outcomeProvable = provable]
      OBVIOUS
    <2> HIDE DEF provable, covered
    <2> QED
      BY <2>1, <1>1 DEF Episode
  <1>4. Covered(ledger.current) = covered
    BY DEF Covered
  <1>5. marked = [covered EXCEPT !.authority = open]
    BY <1>4
  <1> HIDE DEF covered, marked
  <1>6. /\ marked \in Episode /\ marked.opening = ledger.current.opening
        /\ marked.closedBy = ledger.current.closedBy /\ marked.sign = ledger.current.sign
        /\ marked.remaining = ledger.current.remaining
        /\ marked.opened = ledger.current.opened /\ marked.closed = ledger.current.closed
    BY <1>3, <1>5 DEF Episode
  <1>7. past \subseteq Episode /\ current \in Episode
    BY <1>1, <1>2, <1>6
  <1>8. l = [ledger EXCEPT !.past = past, !.current = current]
    BY DEF marked
  <1>9. \A m \in past : \E e \in ledger.past : m = Mark(e)
    OBVIOUS
  <1>10. current = IF ledger.current = NoEpisode THEN NoEpisode ELSE marked
    OBVIOUS
  <1> HIDE DEF past, current
  <1>11. /\ l \in MarketLedger /\ l.position = ledger.position
         /\ l.current = current /\ l.past = past
    BY <1>1, <1>7, <1>8 DEF MarketLedger
  <1> HIDE DEF Mark
  <1>12. ledger.current # NoEpisode => marked # NoEpisode
    <2>1. ledger.current # NoEpisode => ledger.current.opening \in FillIds
      BY DEF Sound, Keys, Episodes
    <2> QED
      BY <2>1, <1>6, EmptyEpisode, IdsArePositive
  <1>13. FlatToFlat(l)
    <2>1. (l.position = 0) <=> (l.current = NoEpisode)
      BY <1>10, <1>11, <1>12 DEF Sound, FlatToFlat
    <2>2. l.current # NoEpisode =>
            /\ l.current.closedBy = "nothing" /\ l.current.sign = Sign(l.position)
            /\ l.current.remaining = Abs(l.position)
            /\ l.current.opened - l.current.closed = Abs(l.position)
      BY <1>6, <1>10, <1>11 DEF Sound, FlatToFlat
    <2>3. \A m \in l.past : /\ m.closedBy # "nothing" /\ m.remaining = 0
                            /\ m.opened = m.closed /\ m.opened > 0
      BY <1>1, <1>2, <1>9, <1>11 DEF Sound, FlatToFlat
    <2> QED
      BY <2>1, <2>2, <2>3, Zenon DEF FlatToFlat
  <1>14. \A m \in Episodes(l) : \E e \in Episodes(ledger) :
            /\ m.opening = e.opening
            /\ m = IF e \in ledger.past THEN Mark(e) ELSE marked
    <2> SUFFICES ASSUME NEW m \in Episodes(l)
                 PROVE  \E e \in Episodes(ledger) :
                          /\ m.opening = e.opening
                          /\ m = IF e \in ledger.past THEN Mark(e) ELSE marked
      OBVIOUS
    <2>1. CASE m \in past
      <3>1. PICK e \in ledger.past : m = Mark(e)
        BY <2>1, <1>9
      <3>2. e \in Episodes(ledger) /\ m.opening = e.opening
        BY <3>1, <1>1, <1>2 DEF Episodes
      <3> QED
        BY <3>1, <3>2
    <2>2. CASE m \notin past
      <3>1. m = marked /\ ledger.current # NoEpisode
        BY <2>2, <1>10, <1>11, <1>12 DEF Episodes
      <3>2. ledger.current \notin ledger.past /\ ledger.current \in Episodes(ledger)
        BY <3>1 DEF Sound, FlatToFlat, Episodes
      <3> QED
        BY <3>1, <3>2, <1>6
    <2> QED
      BY <2>1, <2>2
  <1>15. Keys(l) \subseteq Keys(ledger)
    BY <1>14 DEF Keys
  <1>16. OneKeyEach(l)
    <2> SUFFICES ASSUME NEW m \in Episodes(l), NEW n \in Episodes(l), m.opening = n.opening
                 PROVE  m = n
      BY DEF OneKeyEach
    <2>1. PICK e \in Episodes(ledger) :
            m.opening = e.opening /\ m = IF e \in ledger.past THEN Mark(e) ELSE marked
      BY <1>14
    <2>2. PICK f \in Episodes(ledger) :
            n.opening = f.opening /\ n = IF f \in ledger.past THEN Mark(f) ELSE marked
      BY <1>14
    <2>3. e = f
      BY <2>1, <2>2 DEF Sound, OneKeyEach
    <2> QED
      BY <2>1, <2>2, <2>3
  <1>17. Keys(l) \subseteq FillIds
    BY <1>15 DEF Sound
  <1> QED
    BY <1>11, <1>13, <1>15, <1>16, <1>17, Zenon DEF Sound

---------------------------------------------------------------------------
(* The specification.                                                      *)

\* The fills of the exchange are told apart by their ids; what was read is
\* among them; nothing waits to be replayed outside the replay and nothing is
\* replayed while the routes are read; every ledger is sound and its keys are of
\* fills already replayed (so that the next fill brings a new one).
KeysAreReplayed ==
    \A s \in Subaccounts : \A k \in Keys(ledgers[s]) : \E f \in audit.fills \ todo : f.id = k

IInv ==
    /\ TypeOK
    /\ \A i, j \in DOMAIN history : history[i].id = history[j].id => i = j
    /\ \A f \in audit.fills : \E i \in DOMAIN history : history[i] = f
    /\ pc # "fills" => todo = {}
    /\ pc \in Reads => ledgers = [s \in Subaccounts |-> Flat]
    /\ \A s \in Subaccounts : Sound(ledgers[s])
    /\ KeysAreReplayed

\* A flat ledger is sound and has no key.
LEMMA FlatIsSound == Sound(Flat) /\ Keys(Flat) = {}
  <1>1. Flat \in MarketLedger /\ Flat.position = 0 /\ Flat.current = NoEpisode /\ Flat.past = {}
    BY EmptyEpisode DEF Flat, MarketLedger, None
  <1>2. Episodes(Flat) = {}
    BY <1>1 DEF Episodes
  <1> QED
    BY <1>1, <1>2 DEF Sound, FlatToFlat, OneKeyEach, Keys

LEMMA InitIsSound == Init => IInv
  <1> SUFFICES ASSUME Init PROVE IInv
    OBVIOUS
  <1>1. history = <<>> /\ todo = {} /\ audit = NoAudit /\ ledgers = [s \in Subaccounts |-> Flat]
    BY DEF Init
  <1>2. TypeOK
    <2>1. history \in Seq(Fill) /\ Len(history) = 0
      BY <1>1
    <2>2. Book0 \in Book
      BY DEF Book0, Book
    <2>3. books \in Seq(Book) /\ Len(books) = 1
      BY <2>2 DEF Init
    <2>4. cutoff \in Times /\ settlement \in Settlement \cup {Unsettled} /\ pc \in Phases
      BY ClockAndBounds DEF Init, Times, Phases, Reads
    <2>5. audit \in Audit
      BY <1>1 DEF NoAudit, Audit
    <2>6. ledgers \in [Subaccounts -> MarketLedger]
      BY <1>1, FlatIsSound DEF Sound
    <2> QED
      BY <1>1, <2>1, <2>3, <2>4, <2>5, <2>6 DEF TypeOK
  <1>3. \A s \in Subaccounts : ledgers[s] = Flat
    BY <1>1
  <1>4. audit.fills = {}
    BY <1>1 DEF NoAudit
  <1> QED
    BY <1>1, <1>2, <1>3, <1>4, FlatIsSound DEF IInv, KeysAreReplayed

\* The book after an execution is a book.
LEMMA BookedIsABook ==
    ASSUME NEW book \in Book, NEW fill \in Fill
    PROVE  Booked(book, fill) \in Book
  <1> DEFINE after == book.held[fill.sub] + Signed(fill)
             before == book.held[fill.sub]
  <1>1. /\ book.held \in [Subaccounts -> Int] /\ book.longs \in Int /\ book.shorts \in Int
        /\ fill.sub \in Subaccounts
    BY DEF Book, Fill
  <1>2. before \in Int /\ after \in Int
    BY <1>1, FillWorth
  <1>3. Booked(book, fill) =
          [held |-> [book.held EXCEPT ![fill.sub] = after],
           longs |-> book.longs - (IF before > 0 THEN before ELSE 0) + (IF after > 0 THEN after ELSE 0),
           shorts |-> book.shorts - (IF before < 0 THEN -before ELSE 0) + (IF after < 0 THEN -after ELSE 0)]
    BY DEF Booked
  <1> HIDE DEF before, after
  <1>4. [book.held EXCEPT ![fill.sub] = after] \in [Subaccounts -> Int]
    BY <1>1, <1>2
  <1> QED
    BY <1>1, <1>2, <1>3, <1>4 DEF Book

\* What a route serves are executions of the exchange.
LEMMA ServedAreExecuted ==
    ASSUME NEW served, \/ served \in Parsed(Live) \/ served \in Parsed(Archived)
                       \/ \E rows \in Newest(Live) \cup Newest(Archived) : served \in Parsed(rows)
    PROVE  \A f \in served : \E i \in DOMAIN history : history[i] = f
  <1>1. \A rows : \A p \in Parsed(rows) : p \subseteq rows
    BY DEF Parsed
  <1>2. \A rows : \A n \in Newest(rows) : n \subseteq rows
    BY DEF Newest
  <1>3. served \subseteq Live \/ served \subseteq Archived
    BY <1>1, <1>2
  <1> QED
    BY <1>3 DEF Live, Archived

\* An execution or a settlement while the routes are read, or the clock.
LEMMA ExchangeStep ==
    ASSUME IInv,
           \/ \E fill \in Fill : Execute(fill)
           \/ \E time \in Times, value \in {0, One}, readable \in BOOLEAN, fee \in SettlementFees :
                SettleMarket(time, value, readable, fee)
           \/ AdvanceCutoff
    PROVE  IInv'
  <1>1. /\ pc' = pc /\ audit' = audit /\ todo' = todo /\ ledgers' = ledgers
        /\ pc \in Phases /\ audit \in Audit /\ todo \in SUBSET audit.fills
        /\ ledgers \in [Subaccounts -> MarketLedger]
    BY DEF IInv, TypeOK, Execute, SettleMarket, AdvanceCutoff
  <1>2. /\ history \in Seq(Fill) /\ books \in Seq(Book) /\ Len(books) = Len(history) + 1
        /\ cutoff \in Times /\ settlement \in Settlement \cup {Unsettled}
    BY DEF IInv, TypeOK
  <1>3. LastBook \in Book
    BY <1>2 DEF LastBook
  <1>4. /\ KeysAreReplayed' /\ (pc' # "fills" => todo' = {})
        /\ (pc' \in Reads => ledgers' = [s \in Subaccounts |-> Flat])
        /\ \A s \in Subaccounts : Sound(ledgers'[s])
    BY <1>1 DEF IInv, KeysAreReplayed
  <1>5. CASE \E fill \in Fill : Execute(fill)
    <2>1. PICK fill \in Fill : Execute(fill)
      BY <1>5
    <2>2. history' = Append(history, fill) /\ books' = Append(books, Booked(LastBook, fill))
      BY <2>1 DEF Execute
    <2>3. /\ history' \in Seq(Fill) /\ books' \in Seq(Book) /\ Len(books') = Len(history') + 1
          /\ DOMAIN history' = 1..Len(history) + 1 /\ DOMAIN history = 1..Len(history)
          /\ Len(history) \in Nat
      BY <1>2, <1>3, <2>2, BookedIsABook
    <2>4. \A i \in DOMAIN history : i \in DOMAIN history' /\ history'[i] = history[i]
      BY <1>2, <2>2, <2>3
    <2>5. history'[Len(history) + 1] = fill
      BY <1>2, <2>2
    <2>6. \A i, j \in DOMAIN history' : history'[i].id = history'[j].id => i = j
      <3>1. \A i \in DOMAIN history : history[i].id # fill.id
        BY <2>1 DEF Execute
      <3>2. \A i, j \in DOMAIN history : history[i].id = history[j].id => i = j
        BY DEF IInv
      <3>3. \A i \in DOMAIN history' : i \in DOMAIN history \/ i = Len(history) + 1
        BY <2>3
      <3> QED
        BY <2>4, <2>5, <3>1, <3>2, <3>3
    <2>7. \A f \in audit'.fills : \E i \in DOMAIN history' : history'[i] = f
      BY <1>1, <2>4 DEF IInv
    <2>8. cutoff' = cutoff /\ settlement' = settlement
      BY <2>1 DEF Execute
    <2> QED
      BY <1>1, <1>2, <1>4, <2>3, <2>6, <2>7, <2>8 DEF IInv, TypeOK
  <1>6. CASE \E time \in Times, value \in {0, One}, readable \in BOOLEAN, fee \in SettlementFees :
                SettleMarket(time, value, readable, fee)
    <2>1. PICK time \in Times, value \in {0, One}, readable \in BOOLEAN, fee \in SettlementFees :
                SettleMarket(time, value, readable, fee)
      BY <1>6
    <2>2. history' = history /\ books' = books /\ cutoff' = cutoff
      BY <2>1 DEF SettleMarket
    <2>3. settlement' \in Settlement
      <3>1. LastBook.longs \in Int /\ LastBook.shorts \in Int
        BY <1>3 DEF Book
      <3> DEFINE quantity == LastBook.longs - LastBook.shorts
                 revenue == One * (IF value = One THEN LastBook.longs ELSE LastBook.shorts)
      <3>2. quantity \in Int /\ revenue \in Int
        BY <3>1, MoneyIsWhole
      <3>3. settlement' = [time |-> time, value |-> value, readable |-> readable, fee |-> fee,
                           quantity |-> quantity, revenue |-> revenue]
        BY <2>1 DEF SettleMarket
      <3> HIDE DEF quantity, revenue
      <3> QED
        BY <3>2, <3>3 DEF Settlement
    <2> QED
      BY <1>1, <1>2, <1>4, <2>2, <2>3 DEF IInv, TypeOK
  <1>7. CASE AdvanceCutoff
    <2>1. /\ history' = history /\ books' = books /\ settlement' = settlement
          /\ cutoff' \in Times
      BY <1>2, <1>7, ClockAndBounds DEF AdvanceCutoff, Times
    <2> QED
      BY <1>1, <1>2, <1>4, <2>1 DEF IInv, TypeOK
  <1> QED
    BY <1>5, <1>6, <1>7

\* A step that reads a route: what is read has been executed.
LEMMA ReadingStep ==
    ASSUME IInv,
           \/ WalkLive \/ WalkBounded \/ WalkArchive \/ ArchiveFails
           \/ SkipReconciliation \/ ReadSettlements \/ ReadPositions
    PROVE  IInv'
  <1>1. /\ pc \in Reads /\ todo = {} /\ ledgers = [s \in Subaccounts |-> Flat] /\ ledgers' = ledgers
        /\ history' = history /\ books' = books /\ cutoff' = cutoff /\ settlement' = settlement
    BY DEF IInv, WalkLive, WalkBounded, WalkArchive, ArchiveFails, SkipReconciliation,
           ReadSettlements, ReadPositions, Reads, exchange
  <1>2. /\ history \in Seq(Fill) /\ books \in Seq(Book) /\ Len(books) = Len(history) + 1
        /\ cutoff \in Times /\ settlement \in Settlement \cup {Unsettled}
        /\ audit \in Audit /\ ledgers \in [Subaccounts -> MarketLedger]
    BY DEF IInv, TypeOK
  <1>3. /\ \A s \in Subaccounts : Sound(ledgers'[s]) /\ Keys(ledgers'[s]) = {}
    BY <1>1, FlatIsSound
  <1>4. ASSUME audit' \in Audit, \A f \in audit'.fills : \E i \in DOMAIN history : history[i] = f,
               todo' \in SUBSET audit'.fills, pc' # "fills" => todo' = {}, pc' \in Phases
        PROVE  IInv'
    BY <1>1, <1>2, <1>3, <1>4 DEF IInv, TypeOK, KeysAreReplayed
  <1>5. ASSUME NEW served, \A f \in served : \E i \in DOMAIN history : history[i] = f
        PROVE  served \in SUBSET Fill
    BY <1>2, <1>5
  <1>6. Begun \in Audit /\ \A f \in audit.fills : \E i \in DOMAIN history : history[i] = f
    <2> DEFINE length == Len(history)
               settled == settlement # Unsettled
    <2>1. length \in Nat /\ settled \in BOOLEAN
      BY <1>2
    <2>2. Begun = [audit EXCEPT !.from = length, !.begun = settled]
      BY DEF Begun
    <2> HIDE DEF length, settled
    <2>3. Begun \in Audit
      BY <1>2, <2>1, <2>2, Zenon DEF Audit
    <2> QED
      BY <2>3 DEF IInv
  <1>7. CASE WalkLive \/ WalkBounded
    <2>1. PICK served :
            /\ served \in Parsed(Live) \/ \E rows \in Newest(Live) : served \in Parsed(rows)
            /\ audit' = [Begun EXCEPT !.fills = served]
      BY <1>7, Zenon DEF WalkLive, WalkBounded
    <2>2. \A f \in served : \E i \in DOMAIN history : history[i] = f
      BY <2>1, ServedAreExecuted, Zenon
    <2>3. served \in SUBSET Fill
      BY <2>2, <1>5
    <2>4. audit' \in Audit /\ audit'.fills = served
      BY <2>1, <2>3, <1>6 DEF Audit
    <2>5. todo' = {} /\ pc' \in Phases
      BY <1>1, <1>7 DEF WalkLive, WalkBounded, Phases, Reads
    <2> QED
      BY <2>2, <2>4, <2>5, <1>4
  <1>8. CASE WalkArchive \/ ArchiveFails
    <2>1. PICK served :
            /\ served \in Parsed(Archived) \/ \E rows \in Newest(Archived) : served \in Parsed(rows)
            /\ \/ audit' = [audit EXCEPT !.fills = audit.fills \cup served, !.complete = TRUE]
               \/ audit' = [audit EXCEPT !.fills = audit.fills \cup served]
      BY <1>8, Zenon DEF WalkArchive, ArchiveFails
    <2>2. \A f \in served : \E i \in DOMAIN history : history[i] = f
      BY <2>1, ServedAreExecuted, Zenon
    <2> DEFINE fills == audit.fills \cup served
    <2>3. fills \in SUBSET Fill /\ \A f \in fills : \E i \in DOMAIN history : history[i] = f
      BY <1>5, <1>6, <2>2
    <2> HIDE DEF fills
    <2>4. audit' \in Audit /\ audit'.fills = fills
      <3>1. CASE audit' = [audit EXCEPT !.fills = fills, !.complete = TRUE]
        BY <1>2, <2>3, <3>1, Zenon DEF Audit
      <3>2. CASE audit' = [audit EXCEPT !.fills = fills]
        BY <1>2, <2>3, <3>2, Zenon DEF Audit
      <3> QED
        BY <2>1, <3>1, <3>2 DEF fills
    <2>5. todo' = {} /\ pc' \in Phases
      BY <1>1, <1>8 DEF WalkArchive, ArchiveFails, Phases, Reads
    <2> QED
      BY <2>3, <2>4, <2>5, <1>4
  <1>9. CASE SkipReconciliation
    <2>1. audit' = audit /\ todo' = audit.fills /\ pc' = "fills"
      BY <1>9 DEF SkipReconciliation
    <2> QED
      BY <2>1, <1>2, <1>4, <1>6 DEF Phases
  <1>10. CASE ReadSettlements
    <2>1. PICK view \in SettlementViews :
            audit' = [audit EXCEPT !.row = view[1], !.floor = view[2],
                                   !.settled = settlement # Unsettled,
                                   !.whole = Cardinality(audit.fills) = Len(history)]
      BY <1>10 DEF ReadSettlements
    <2> DEFINE settled == settlement # Unsettled
               whole == Cardinality(audit.fills) = Len(history)
               row == view[1]
               floor == view[2]
    <2>2. row \in Settlement \cup {Unsettled} /\ floor \in Times \cup {None}
      <3>1. settlement # Unsettled => settlement.time \in Times
        BY <1>2 DEF Settlement
      <3>2. settlement # Unsettled => 0..settlement.time \subseteq Times
        BY <3>1, ClockAndBounds DEF Times
      <3> QED
        BY <1>2, <3>2 DEF SettlementViews
    <2>3. settled \in BOOLEAN /\ whole \in BOOLEAN
      OBVIOUS
    <2>4. audit' = [audit EXCEPT !.row = row, !.floor = floor, !.settled = settled, !.whole = whole]
      BY <2>1
    <2> HIDE DEF settled, whole, row, floor
    <2>5. audit' \in Audit /\ audit'.fills = audit.fills
      BY <1>2, <2>2, <2>3, <2>4, Zenon DEF Audit
    <2>6. todo' = {} /\ pc' \in Phases
      BY <1>1, <1>10 DEF ReadSettlements, Phases, Reads
    <2> QED
      BY <2>5, <2>6, <1>4, <1>6
  <1>11. CASE ReadPositions
    <2> DEFINE book == BookNow
    <2>1. PICK said \in {"unreadable", "quantity", "absent"} :
            audit' = [audit EXCEPT !.said = said,
                        !.quantity = IF said = "quantity" THEN book.longs - book.shorts ELSE 0]
      BY <1>11 DEF ReadPositions
    <2> DEFINE quantity == IF said = "quantity" THEN book.longs - book.shorts ELSE 0
    <2>2. quantity \in Int
      <3>1. Book0 \in Book
        BY DEF Book0, Book
      <3>2. book \in Book
        BY <1>2, <3>1 DEF BookNow, LastBook
      <3> QED
        BY <3>2 DEF Book
    <2>3. audit' = [audit EXCEPT !.said = said, !.quantity = quantity]
      BY <2>1
    <2> HIDE DEF quantity
    <2>4. said \in {"not_asked", "absent", "unreadable", "quantity"}
      OBVIOUS
    <2>5. audit' \in Audit /\ audit'.fills = audit.fills
      BY <1>2, <2>2, <2>3, <2>4, Zenon DEF Audit
    <2>6. todo' = audit.fills /\ pc' = "fills"
      BY <1>11 DEF ReadPositions
    <2> QED
      BY <2>5, <2>6, <1>4, <1>6 DEF Phases
  <1> QED
    BY <1>7, <1>8, <1>9, <1>10, <1>11

\* A step of the replay, or a new audit.
LEMMA ReplayStep ==
    ASSUME IInv,
           \/ \E fill \in todo : ApplyFill(fill)
           \/ ApplySettlement \/ AssignAuthority \/ Restart
    PROVE  IInv'
  <1>1. /\ history \in Seq(Fill) /\ books \in Seq(Book) /\ Len(books) = Len(history) + 1
        /\ cutoff \in Times /\ settlement \in Settlement \cup {Unsettled}
        /\ audit \in Audit /\ todo \in SUBSET audit.fills
        /\ ledgers \in [Subaccounts -> MarketLedger]
        /\ \A s \in Subaccounts : Sound(ledgers[s])
        /\ \A i, j \in DOMAIN history : history[i].id = history[j].id => i = j
        /\ \A f \in audit.fills : \E i \in DOMAIN history : history[i] = f
    BY DEF IInv, TypeOK
  <1>2. history' = history /\ books' = books /\ cutoff' = cutoff /\ settlement' = settlement
    BY DEF ApplyFill, ApplySettlement, AssignAuthority, Restart, exchange
  <1>3. ASSUME audit' = audit, todo' \in SUBSET audit.fills, pc' \in Phases \ Reads,
               pc' # "fills" => todo' = {}, ledgers' \in [Subaccounts -> MarketLedger],
               \A s \in Subaccounts : Sound(ledgers'[s]), KeysAreReplayed'
        PROVE  IInv'
    BY <1>1, <1>2, <1>3 DEF IInv, TypeOK
  <1>4. CASE \E fill \in todo : ApplyFill(fill)
    <2>1. PICK fill \in todo : ApplyFill(fill)
      BY <1>4
    <2>2. /\ pc = "fills" /\ pc' = "fills" /\ audit' = audit /\ todo' = todo \ {fill}
          /\ ledgers' = [ledgers EXCEPT ![fill.sub] = Applied(ledgers[fill.sub], fill)]
      BY <2>1 DEF ApplyFill
    <2>3. fill \in Fill /\ fill \in audit.fills /\ fill.sub \in Subaccounts
      BY <1>1 DEF Audit, Fill
    <2>4. \A s \in Subaccounts : fill.id \notin Keys(ledgers[s])
      <3> SUFFICES ASSUME NEW s \in Subaccounts, fill.id \in Keys(ledgers[s]) PROVE FALSE
        OBVIOUS
      <3>1. PICK f \in audit.fills \ todo : f.id = fill.id
        BY DEF IInv, KeysAreReplayed
      <3>2. f = fill
        BY <3>1, <2>3, <1>1
      <3> QED
        BY <3>1, <3>2
    <2> DEFINE l == Applied(ledgers[fill.sub], fill)
    <2>5. Sound(l) /\ Keys(l) \subseteq Keys(ledgers[fill.sub]) \cup {fill.id}
      BY <1>1, <2>3, <2>4, ApplyingIsSound
    <2> HIDE DEF l
    <2>6. /\ ledgers' \in [Subaccounts -> MarketLedger] /\ ledgers'[fill.sub] = l
          /\ \A s \in Subaccounts \ {fill.sub} : ledgers'[s] = ledgers[s]
      <3>1. ledgers' = [ledgers EXCEPT ![fill.sub] = l] /\ l \in MarketLedger
        BY <2>2, <2>5 DEF l, Sound
      <3> QED
        BY <3>1, <2>3, <1>1
    <2>7. \A s \in Subaccounts : Sound(ledgers'[s])
      BY <1>1, <2>5, <2>6
    <2>8. \A s \in Subaccounts : Keys(ledgers'[s]) \subseteq Keys(ledgers[s]) \cup {fill.id}
      BY <2>5, <2>6
    <2>9. KeysAreReplayed'
      <3> SUFFICES ASSUME NEW s \in Subaccounts, NEW k \in Keys(ledgers'[s])
                   PROVE  \E f \in audit.fills \ (todo \ {fill}) : f.id = k
        BY <2>2 DEF KeysAreReplayed, Keys, Episodes
      <3>1. CASE k = fill.id
        BY <3>1, <2>3
      <3>2. CASE k \in Keys(ledgers[s])
        BY <3>2 DEF IInv, KeysAreReplayed
      <3> QED
        BY <2>8, <3>1, <3>2
    <2> QED
      BY <1>1, <1>3, <2>2, <2>6, <2>7, <2>9 DEF Phases, Reads
  <1>5. ASSUME audit' = audit, todo' = todo, todo = {}, pc' \in Phases \ Reads,
               ledgers' = [s \in Subaccounts |-> ledgers'[s]],
               \A s \in Subaccounts :
                  Sound(ledgers'[s]) /\ Keys(ledgers'[s]) \subseteq Keys(ledgers[s])
        PROVE  IInv'
    <2>1. \A s \in Subaccounts : ledgers'[s] \in MarketLedger
      BY <1>5 DEF Sound
    <2>2. ledgers' \in [Subaccounts -> MarketLedger]
      BY <1>5, <2>1
    <2>3. KeysAreReplayed'
      <3> SUFFICES ASSUME NEW s \in Subaccounts, NEW k \in Keys(ledgers'[s])
                   PROVE  \E f \in audit.fills \ todo : f.id = k
        BY <1>5 DEF KeysAreReplayed, Keys, Episodes
      <3> QED
        BY <1>5 DEF IInv, KeysAreReplayed
    <2> QED
      BY <1>3, <1>5, <2>2, <2>3
  <1>6. CASE ApplySettlement
    <2> DEFINE Step(s) == IF ~SettlementEvidence THEN ledgers[s]
                          ELSE IF HeldIn = {s} /\ ~Refuses(ledgers[s], audit.row)
                          THEN Settled(ledgers[s], audit.row) ELSE Unresolved(ledgers[s])
    <2>1. /\ audit' = audit /\ todo' = todo /\ todo = {} /\ pc' \in Phases \ Reads
          /\ ledgers' = [s \in Subaccounts |-> Step(s)]
      BY <1>6 DEF ApplySettlement, Phases, Reads
    <2>2. ASSUME NEW s \in Subaccounts
          PROVE  Sound(Step(s)) /\ Keys(Step(s)) \subseteq Keys(ledgers[s])
      <3>1. CASE ~SettlementEvidence
        BY <3>1, <1>1
      <3>2. CASE SettlementEvidence /\ HeldIn = {s} /\ ~Refuses(ledgers[s], audit.row)
        <4>1. audit.row \in Settlement /\ ledgers[s].position # 0
          BY <3>2, <1>1 DEF SettlementEvidence, Refuses, Audit
        <4> QED
          BY <4>1, <3>2, <1>1, SettlingIsSound
      <3>3. CASE SettlementEvidence /\ ~(HeldIn = {s} /\ ~Refuses(ledgers[s], audit.row))
        BY <3>3, <1>1, UnresolvedIsSound
      <3> QED
        BY <3>1, <3>2, <3>3
    <2> HIDE DEF Step
    <2>3. \A s \in Subaccounts : ledgers'[s] = Step(s)
      BY <2>1
    <2>4. ledgers' = [s \in Subaccounts |-> ledgers'[s]]
      BY <2>1
    <2>5. \A s \in Subaccounts :
            Sound(ledgers'[s]) /\ Keys(ledgers'[s]) \subseteq Keys(ledgers[s])
      BY <2>2, <2>3
    <2> QED
      BY <2>1, <2>4, <2>5, <1>5
  <1>7. CASE AssignAuthority
    <2> DEFINE Step(s) == [ledgers[s] EXCEPT
                  !.past = {[e EXCEPT !.authority = ClosedAuthority(e)] : e \in @},
                  !.current = IF @ = NoEpisode THEN @
                              ELSE [Covered(@) EXCEPT !.authority = OpenAuthority(ledgers[s])]]
    <2>1. /\ audit' = audit /\ todo' = todo /\ todo = {} /\ pc' \in Phases \ Reads
          /\ ledgers' = [s \in Subaccounts |-> Step(s)]
      BY <1>7 DEF IInv, AssignAuthority, Phases, Reads
    <2>2. ASSUME NEW s \in Subaccounts
          PROVE  Sound(Step(s)) /\ Keys(Step(s)) \subseteq Keys(ledgers[s])
      <3> DEFINE open == OpenAuthority(ledgers[s])
                 l == Step(s)
                 ledger == ledgers[s]
      <3>1. open \in {"not_reconciled", "unexplained", "reconciled_current", "conflicted"}
        BY AuthorityIsKnown
      <3>2. l = [ledger EXCEPT
                  !.past = {[e EXCEPT !.authority = ClosedAuthority(e)] : e \in @},
                  !.current = IF @ = NoEpisode THEN @ ELSE [Covered(@) EXCEPT !.authority = open]]
        OBVIOUS
      <3>3. Sound(ledger)
        BY <1>1
      <3> HIDE DEF open, l, ledger
      <3>4. Sound(l) /\ Keys(l) \subseteq Keys(ledger)
        BY <3>1, <3>2, <3>3, AuthorisingIsSound
      <3> QED
        BY <3>4 DEF l, ledger
    <2> HIDE DEF Step
    <2>3. \A s \in Subaccounts : ledgers'[s] = Step(s)
      BY <2>1
    <2>4. ledgers' = [s \in Subaccounts |-> ledgers'[s]]
      BY <2>1
    <2>5. \A s \in Subaccounts :
            Sound(ledgers'[s]) /\ Keys(ledgers'[s]) \subseteq Keys(ledgers[s])
      BY <2>2, <2>3
    <2> QED
      BY <2>1, <2>4, <2>5, <1>5
  <1>8. CASE Restart
    <2>1. /\ pc' = "live" /\ audit' = NoAudit /\ todo' = {}
          /\ ledgers' = [s \in Subaccounts |-> Flat]
      BY <1>8 DEF IInv, Restart
    <2>2. NoAudit \in Audit /\ NoAudit.fills = {}
      BY DEF NoAudit, Audit
    <2>3. /\ \A s \in Subaccounts : Sound(ledgers'[s]) /\ Keys(ledgers'[s]) = {}
          /\ ledgers' \in [Subaccounts -> MarketLedger]
      BY <2>1, FlatIsSound DEF Sound
    <2> QED
      BY <1>1, <1>2, <2>1, <2>2, <2>3 DEF IInv, TypeOK, KeysAreReplayed, Phases, Reads
  <1> QED
    BY <1>4, <1>6, <1>7, <1>8

\* Nothing moves.
LEMMA StutteringStep == ASSUME IInv, UNCHANGED vars PROVE IInv'
  <1>1. /\ history' = history /\ books' = books /\ cutoff' = cutoff /\ settlement' = settlement
        /\ pc' = pc /\ audit' = audit /\ todo' = todo /\ ledgers' = ledgers
    BY DEF vars
  <1> QED
    BY <1>1 DEF IInv, TypeOK, KeysAreReplayed

LEMMA NextIsSound == ASSUME IInv, [Next]_vars PROVE IInv'
  BY ExchangeStep, ReadingStep, ReplayStep, StutteringStep DEF Next

LEMMA Inductive == Spec => []IInv
  BY InitIsSound, NextIsSound, PTL DEF Spec

---------------------------------------------------------------------------

\* Every state of an audit is well typed, whatever the fills, prices and fees
\* and however the exchange moves between the reads: every ledger is a record
\* apply_fill, apply_settlement and _assign_authority can continue from.
THEOREM Typing == Spec => []TypeOK
  <1>1. IInv => TypeOK
    BY DEF IInv
  <1> QED
    BY <1>1, Inductive, PTL

\* An episode is always one flat-to-flat span on one side, whatever fills are
\* replayed in whatever order of time and id (position.py: apply_fill,
\* apply_settlement).
THEOREM FlatToFlatSpans == Spec => []EpisodesAreFlatToFlat
  <1>1. IInv => EpisodesAreFlatToFlat
    BY DEF IInv, Sound, EpisodesAreFlatToFlat
  <1> QED
    BY <1>1, Inductive, PTL

\* No two episodes of a subaccount ever share a source key, even where one
\* fill ends an episode and opens the next (position.py: identity,
\* apply_fill's reversal).
THEOREM EpisodeKeys == Spec => []KeysNameOneEpisode
  <1>1. IInv => KeysNameOneEpisode
    BY DEF IInv, Sound, KeysNameOneEpisode
  <1> QED
    BY <1>1, Inductive, PTL

---------------------------------------------------------------------------
(* What an execution makes of a ledger.                                    *)

\* An episode that a fill opens, and one that a fill goes on.
OpenedBy(e, fill, after) ==
    /\ e.opening = fill.id /\ e.sign = Sign(after) /\ e.fills = {fill.id}
    /\ e.last = fill.time /\ e.closedBy = "nothing" /\ e.authority = "not_reconciled"

Extends(e, old, fill) ==
    /\ e.opening = old.opening /\ e.sign = old.sign /\ e.fills = old.fills \cup {fill.id}
    /\ e.last = fill.time /\ e.authority = old.authority

ClosesCurrent(l, ledger, fill) ==
    \E e : /\ l.past = ledger.past \cup {e}
           /\ Extends(e, ledger.current, fill) /\ e.closedBy = "fill"

\* The four things apply_fill does: open, close, reverse, go on.
AppliedTo(l, ledger, fill, after) ==
    \/ /\ ledger.position = 0 /\ after # 0
       /\ l.past = ledger.past /\ OpenedBy(l.current, fill, after)
    \/ /\ ledger.position # 0 /\ after = 0
       /\ l.current = NoEpisode /\ ClosesCurrent(l, ledger, fill)
    \/ /\ ledger.position # 0 /\ after # 0 /\ Sign(after) # Sign(ledger.position)
       /\ OpenedBy(l.current, fill, after) /\ ClosesCurrent(l, ledger, fill)
    \/ /\ ledger.position # 0 /\ after # 0 /\ Sign(after) = Sign(ledger.position)
       /\ l.past = ledger.past
       /\ Extends(l.current, ledger.current, fill) /\ l.current.closedBy = ledger.current.closedBy

\* _record adds the fill to an episode and leaves its authority.
LEMMA RecordedFill ==
    ASSUME NEW episode \in Episode, NEW fill, NEW opened, NEW closed,
           NEW gain, NEW after, NEW basisKnown, NEW chargeFee,
           NEW e, e = Executed(episode, fill, opened, closed, gain, after, basisKnown, chargeFee)
    PROVE  Extends(e, episode, fill) /\ e.closedBy = episode.closedBy
  <1> DEFINE fills == episode.fills \cup {fill.id}
             open == episode.opened + opened
             close == episode.closed + closed
             left == Abs(after)
             realized == episode.realized + gain
             cost == episode.costComplete /\ basisKnown
             fees == IF chargeFee /\ Fee(fill) # None THEN episode.fees + Fee(fill) ELSE episode.fees
             fee == episode.feeComplete /\ chargeFee /\ Fee(fill) # None
  <1>1. e = [episode EXCEPT !.fills = fills, !.opened = open, !.closed = close,
                            !.remaining = left, !.realized = realized, !.costComplete = cost,
                            !.fees = fees, !.feeComplete = fee, !.last = fill.time]
    BY Zenon DEF Executed
  <1>2. fills = episode.fills \cup {fill.id}
    OBVIOUS
  <1> HIDE DEF fills, open, close, left, realized, cost, fees, fee
  <1>3. /\ e.opening = episode.opening /\ e.sign = episode.sign /\ e.fills = fills
        /\ e.last = fill.time /\ e.authority = episode.authority /\ e.closedBy = episode.closedBy
    BY <1>1, Zenon DEF Episode
  <1> QED
    BY <1>2, <1>3 DEF Extends

LEMMA OpeningOpens ==
    ASSUME NEW ledger \in MarketLedger, NEW fill \in Fill, NEW after \in Int, NEW chargeFee,
           NEW l, l = Opening(ledger, fill, after, chargeFee)
    PROVE  l.position = after /\ l.past = ledger.past /\ OpenedBy(l.current, fill, after)
  <1> DEFINE new == NewEpisode(fill.id, Sign(after), fill.time)
             known == Price(fill) # None
             e == Executed(new, fill, Abs(after), 0, 0, after, known, chargeFee)
  <1>1. l = [ledger EXCEPT !.position = after, !.average = Price(fill), !.costComplete = known,
                           !.current = e]
    BY DEF Opening
  <1>2. e = Executed(new, fill, Abs(after), 0, 0, after, known, chargeFee)
    OBVIOUS
  <1>3. /\ new \in Episode /\ new.opening = fill.id /\ new.sign = Sign(after)
        /\ new.closedBy = "nothing"
    BY FillWorth, FreshEpisode DEF Sign
  <1>4. new.fills = {} /\ new.authority = "not_reconciled"
    BY DEF NewEpisode
  <1> HIDE DEF new, known, e
  <1>5. Extends(e, new, fill) /\ e.closedBy = new.closedBy
    BY <1>2, <1>3, RecordedFill
  <1>6. l.position = after /\ l.past = ledger.past /\ l.current = e
    BY <1>1, Zenon DEF MarketLedger
  <1> QED
    BY <1>3, <1>4, <1>5, <1>6 DEF Extends, OpenedBy

LEMMA ClosingCloses ==
    ASSUME NEW ledger \in MarketLedger, NEW fill \in Fill, NEW chargeFee,
           NEW l, l = Closing(ledger, fill, chargeFee)
    PROVE  l.position = 0 /\ l.current = NoEpisode /\ ClosesCurrent(l, ledger, fill)
  <1> DEFINE closed == Abs(ledger.position)
             gain == Gain(ledger, fill, closed)
             priced == Priced(ledger, fill)
             r == Executed(ledger.current, fill, 0, closed, gain, 0, priced, chargeFee)
             e == [r EXCEPT !.closedBy = "fill"]
  <1>1. l = [ledger EXCEPT !.position = 0, !.average = None, !.costComplete = TRUE,
                           !.current = NoEpisode, !.past = @ \cup {e}]
    BY DEF Closing
  <1>2. r = Executed(ledger.current, fill, 0, closed, gain, 0, priced, chargeFee)
        /\ ledger.current \in Episode
    BY DEF MarketLedger
  <1>3. e.closedBy = "fill" /\ Extends(e, r, fill) = Extends(e, r, fill)
        /\ e.opening = r.opening /\ e.sign = r.sign /\ e.fills = r.fills
        /\ e.last = r.last /\ e.authority = r.authority
    BY DEF Executed, MarketLedger, Episode
  <1> HIDE DEF closed, gain, priced, r, e
  <1>4. Extends(r, ledger.current, fill)
    BY <1>2, RecordedFill
  <1>5. l.position = 0 /\ l.current = NoEpisode /\ l.past = ledger.past \cup {e}
    BY <1>1, Zenon DEF MarketLedger
  <1> QED
    BY <1>3, <1>4, <1>5 DEF Extends, ClosesCurrent

LEMMA GoingOnGoesOn ==
    ASSUME NEW ledger \in MarketLedger, NEW fill \in Fill, NEW after,
           NEW l, l = Increasing(ledger, fill, after) \/ l = Reducing(ledger, fill, after)
    PROVE  /\ l.position = after /\ l.past = ledger.past
           /\ Extends(l.current, ledger.current, fill) /\ l.current.closedBy = ledger.current.closedBy
  <1>0. ledger.current \in Episode
    BY DEF MarketLedger
  <1>1. CASE l = Increasing(ledger, fill, after)
    <2> DEFINE known == Price(fill) # None /\ ledger.average # None
               notional == ledger.average * Abs(ledger.position) + Price(fill) * Count(fill)
               average == IF known THEN notional \div Abs(after) ELSE None
               basis == ledger.costComplete /\ known
               charged == TRUE
               e == Executed(ledger.current, fill, Count(fill), 0, 0, after, basis, charged)
    <2>1. l = [ledger EXCEPT !.position = after, !.average = average, !.costComplete = basis,
                             !.current = e]
      BY <1>1 DEF Increasing
    <2>e. e = Executed(ledger.current, fill, Count(fill), 0, 0, after, basis, charged)
      OBVIOUS
    <2> HIDE DEF known, notional, average, basis, charged, e
    <2>2. Extends(e, ledger.current, fill) /\ e.closedBy = ledger.current.closedBy
      BY <1>0, <2>e, RecordedFill
    <2>3. l.position = after /\ l.past = ledger.past /\ l.current = e
      BY <2>1, Zenon DEF MarketLedger
    <2> QED
      BY <2>2, <2>3
  <1>2. CASE l = Reducing(ledger, fill, after)
    <2> DEFINE priced == Priced(ledger, fill)
               gain == Gain(ledger, fill, Count(fill))
               charged == TRUE
               e == Executed(ledger.current, fill, 0, Count(fill), gain, after, priced, charged)
    <2>1. l = [ledger EXCEPT !.position = after, !.costComplete = priced, !.current = e]
      BY <1>2 DEF Reducing
    <2>e. e = Executed(ledger.current, fill, 0, Count(fill), gain, after, priced, charged)
      OBVIOUS
    <2> HIDE DEF priced, gain, charged, e
    <2>2. Extends(e, ledger.current, fill) /\ e.closedBy = ledger.current.closedBy
      BY <1>0, <2>e, RecordedFill
    <2>3. l.position = after /\ l.past = ledger.past /\ l.current = e
      BY <2>1, Zenon DEF MarketLedger
    <2> QED
      BY <2>2, <2>3
  <1> QED
    BY <1>1, <1>2

\* apply_fill opens, closes, reverses or goes on, by the position before and
\* after.
LEMMA ApplyingIs ==
    ASSUME NEW ledger, Sound(ledger), NEW fill \in Fill,
           NEW l, l = Applied(ledger, fill)
    PROVE  /\ l.position = ledger.position + Signed(fill)
           /\ AppliedTo(l, ledger, fill, ledger.position + Signed(fill))
  <1> DEFINE before == ledger.position
             after == before + Signed(fill)
             charged == TRUE
  <1>0. ledger \in MarketLedger
    BY DEF Sound
  <1>1. /\ before \in Int /\ Signed(fill) \in Int /\ Signed(fill) # 0 /\ after \in Int
        /\ before = 0 => after # 0
    BY <1>0, FillWorth DEF MarketLedger
  <1>a. /\ before = 0 => l = Opening(ledger, fill, after, charged)
        /\ before # 0 /\ after = 0 => l = Closing(ledger, fill, charged)
        /\ before # 0 /\ after # 0 /\ Sign(after) # Sign(before) =>
              l = Opening(Closing(ledger, fill, FALSE), fill, after, FALSE)
        /\ before # 0 /\ after # 0 /\ Sign(after) = Sign(before) =>
              l = Increasing(ledger, fill, after) \/ l = Reducing(ledger, fill, after)
    <2>1. before # 0 /\ after # 0 /\ Sign(after) # Sign(before) => Sign(after) = -Sign(before)
      BY <1>1 DEF Sign
    <2>2. before # 0 /\ (after = 0 \/ Sign(after) = Sign(before)) => Sign(after) # -Sign(before)
      BY <1>1 DEF Sign
    <2> QED
      BY <2>1, <2>2 DEF Applied, Reversing
  <1>b. after = ledger.position + Signed(fill) /\ before = ledger.position
    OBVIOUS
  <1> SUFFICES l.position = after /\ AppliedTo(l, ledger, fill, after)
    OBVIOUS
  <1> HIDE DEF before, after, charged
  <1>2. CASE before = 0
    <2>1. l.position = after /\ l.past = ledger.past /\ OpenedBy(l.current, fill, after)
      BY <1>0, <1>1, <1>2, <1>a, OpeningOpens
    <2> QED
      BY <2>1, <1>1, <1>2, <1>b DEF AppliedTo
  <1>3. CASE before # 0 /\ after = 0
    BY <1>0, <1>3, <1>a, <1>b, ClosingCloses DEF AppliedTo
  <1>4. CASE before # 0 /\ after # 0 /\ Sign(after) # Sign(before)
    <2> DEFINE mid == Closing(ledger, fill, FALSE)
    <2>1. l = Opening(mid, fill, after, FALSE) /\ mid = Closing(ledger, fill, FALSE)
      BY <1>4, <1>a
    <2> HIDE DEF mid
    <2>2. mid \in MarketLedger
      BY <1>4, <1>b, <2>1, ClosingIsSound DEF Sound
    <2>3. ClosesCurrent(mid, ledger, fill)
      BY <1>0, <2>1, ClosingCloses
    <2>4. l.position = after /\ l.past = mid.past /\ OpenedBy(l.current, fill, after)
      <3>1. after \in Int
        BY <1>1
      <3>2. l = Opening(mid, fill, after, FALSE)
        BY <2>1
      <3> QED
        BY <3>1, <3>2, <2>2, OpeningOpens
    <2> QED
      BY <1>4, <1>b, <2>3, <2>4 DEF AppliedTo, ClosesCurrent
  <1>5. CASE before # 0 /\ after # 0 /\ Sign(after) = Sign(before)
    BY <1>0, <1>5, <1>a, <1>b, GoingOnGoesOn DEF AppliedTo
  <1> QED
    BY <1>2, <1>3, <1>4, <1>5

\* What is kept of an episode by a step that only closes or marks it.
SameSpan(e, old) ==
    e.opening = old.opening /\ e.sign = old.sign /\ e.fills = old.fills /\ e.last = old.last

\* apply_settlement closes the open episode as it stands.
LEMMA SettlingCloses ==
    ASSUME NEW ledger \in MarketLedger, NEW row, NEW l, l = Settled(ledger, row)
    PROVE  /\ l.position = 0 /\ l.current = NoEpisode
           /\ \E e : /\ l.past = ledger.past \cup {e} /\ e.closedBy = "settlement"
                     /\ e.opening = ledger.current.opening /\ e.sign = ledger.current.sign
                     /\ e.fills = ledger.current.fills /\ e.authority = ledger.current.authority
  <1> DEFINE c == ledger.current
             known == ledger.costComplete /\ ledger.average # None
             close == c.closed + Abs(ledger.position)
             realized == c.realized + (IF known THEN SettlementGain(ledger, row) ELSE 0)
             cost == c.costComplete /\ known
             fees == IF row.fee # None THEN c.fees + row.fee ELSE c.fees
             fee == c.feeComplete /\ row.fee # None
             e == [c EXCEPT !.closed = close, !.remaining = 0, !.closedBy = "settlement",
                            !.realized = realized, !.costComplete = cost,
                            !.fees = fees, !.feeComplete = fee, !.last = row.time]
  <1>1. c = ledger.current /\ c \in Episode
    BY DEF MarketLedger
  <1>2. l = [ledger EXCEPT !.position = 0, !.average = None, !.current = NoEpisode,
                           !.past = @ \cup {e}]
    BY Zenon DEF Settled
  <1>3. e = [c EXCEPT !.closed = close, !.remaining = 0, !.closedBy = "settlement",
                      !.realized = realized, !.costComplete = cost,
                      !.fees = fees, !.feeComplete = fee, !.last = row.time]
    OBVIOUS
  <1> HIDE DEF c, known, close, realized, cost, fees, fee, e
  <1>4. /\ e.opening = c.opening /\ e.sign = c.sign /\ e.fills = c.fills
        /\ e.authority = c.authority /\ e.closedBy = "settlement"
    BY <1>1, <1>3, Zenon DEF Episode
  <1>5. l.position = 0 /\ l.current = NoEpisode /\ l.past = ledger.past \cup {e}
    BY <1>2, Zenon DEF MarketLedger
  <1> QED
    BY <1>1, <1>4, <1>5

\* A settlement that cannot be applied leaves the open episode open, and its
\* outcome unprovable.
LEMMA UnresolvedStays ==
    ASSUME NEW ledger \in MarketLedger, NEW l, l = Unresolved(ledger)
    PROVE  /\ l.position = ledger.position /\ l.past = ledger.past
           /\ (l.current = NoEpisode) <=> (ledger.current = NoEpisode)
           /\ ledger.current # NoEpisode =>
                 /\ SameSpan(l.current, ledger.current) /\ ~l.current.outcomeProvable
                 /\ l.current.closedBy = ledger.current.closedBy
                 /\ l.current.authority = ledger.current.authority
  <1>1. CASE ledger.current = NoEpisode
    BY <1>1 DEF Unresolved
  <1>2. CASE ledger.current # NoEpisode
    <2> DEFINE e == [ledger.current EXCEPT !.outcomeProvable = FALSE]
    <2>1. l = [ledger EXCEPT !.current = e] /\ ledger.current \in Episode
      BY <1>2 DEF Unresolved, MarketLedger
    <2>2. /\ SameSpan(e, ledger.current) /\ ~e.outcomeProvable
          /\ e.closedBy = ledger.current.closedBy /\ e.authority = ledger.current.authority
      BY <2>1 DEF Episode, SameSpan
    <2>3. NoEpisode.outcomeProvable
      BY DEF NoEpisode, NewEpisode
    <2> HIDE DEF e
    <2>4. l.position = ledger.position /\ l.past = ledger.past /\ l.current = e
      BY <2>1, Zenon DEF MarketLedger
    <2> QED
      BY <1>2, <2>2, <2>3, <2>4
  <1> QED
    BY <1>1, <1>2

\* _assign_authority, on the open episode of a ledger and on its closed ones.
Authorised(ledger) ==
    [ledger EXCEPT
        !.past = {[e EXCEPT !.authority = ClosedAuthority(e)] : e \in @},
        !.current = IF @ = NoEpisode THEN @
                    ELSE [Covered(@) EXCEPT !.authority = OpenAuthority(ledger)]]

LEMMA AuthorisingMarks ==
    ASSUME NEW ledger \in MarketLedger, NEW l, l = Authorised(ledger)
    PROVE  /\ l.position = ledger.position
           /\ \A e \in l.past : \E old \in ledger.past :
                 /\ SameSpan(e, old) /\ e.closedBy = old.closedBy
                 /\ e.authority = ClosedAuthority(old)
           /\ ledger.current = NoEpisode => l.current = NoEpisode
           /\ ledger.current # NoEpisode =>
                 /\ SameSpan(l.current, ledger.current)
                 /\ l.current.closedBy = ledger.current.closedBy
                 /\ l.current.authority = OpenAuthority(ledger)
                 /\ l.current.outcomeProvable =>
                       /\ ledger.current.outcomeProvable
                       /\ SettlementEvidence \/ audit.floor = None
                             \/ ledger.current.last >= audit.floor
  <1> DEFINE open == OpenAuthority(ledger)
             past == {[e EXCEPT !.authority = ClosedAuthority(e)] : e \in ledger.past}
             provable == ledger.current.outcomeProvable
                         /\ (SettlementEvidence \/ audit.floor = None
                             \/ ledger.current.last >= audit.floor)
             covered == [ledger.current EXCEPT !.outcomeProvable = provable]
             marked == [covered EXCEPT !.authority = open]
             current == IF ledger.current = NoEpisode THEN NoEpisode ELSE marked
  <1>1. l = [ledger EXCEPT !.past = past, !.current = current]
    BY DEF Authorised, Covered
  <1>2. ledger.current \in Episode /\ ledger.past \subseteq Episode
    BY DEF MarketLedger
  <1>3. \A e \in past : \E old \in ledger.past :
           /\ SameSpan(e, old) /\ e.closedBy = old.closedBy /\ e.authority = ClosedAuthority(old)
    <2> TAKE e \in past
    <2>1. PICK old \in ledger.past : e = [old EXCEPT !.authority = ClosedAuthority(old)]
      OBVIOUS
    <2>2. old \in Episode
      BY <1>2
    <2> DEFINE a == ClosedAuthority(old)
    <2>3. e = [old EXCEPT !.authority = a]
      BY <2>1
    <2> HIDE DEF a, past
    <2>4. /\ e.opening = old.opening /\ e.sign = old.sign /\ e.fills = old.fills
          /\ e.last = old.last /\ e.closedBy = old.closedBy /\ e.authority = a
      BY <2>2, <2>3, Zenon DEF Episode
    <2> QED
      BY <2>4 DEF a, SameSpan
  <1>4. provable => /\ ledger.current.outcomeProvable
                    /\ SettlementEvidence \/ audit.floor = None \/ ledger.current.last >= audit.floor
    OBVIOUS
  <1>5. open = OpenAuthority(ledger)
    OBVIOUS
  <1> HIDE DEF provable, open, past
  <1>6. /\ covered \in [opening : FillIds \cup {0}, sign : {-1, 0, 1}, fills : SUBSET FillIds,
            opened : Nat, closed : Nat, remaining : Nat, realized : Int,
            costComplete : BOOLEAN, fees : Int, feeComplete : BOOLEAN,
            last : Nat, outcomeProvable : {provable},
            closedBy : {"nothing", "fill", "settlement"}, authority : {ledger.current.authority}]
        /\ covered.opening = ledger.current.opening /\ covered.sign = ledger.current.sign
        /\ covered.fills = ledger.current.fills /\ covered.last = ledger.current.last
        /\ covered.closedBy = ledger.current.closedBy
    BY <1>2, Zenon DEF Episode
  <1> HIDE DEF covered
  <1>7. /\ marked.opening = covered.opening /\ marked.sign = covered.sign
        /\ marked.fills = covered.fills /\ marked.last = covered.last
        /\ marked.closedBy = covered.closedBy /\ marked.authority = open
        /\ marked.outcomeProvable = provable
    BY <1>6, Zenon
  <1> HIDE DEF marked
  <1>8. /\ ledger.current # NoEpisode => current = marked
        /\ ledger.current = NoEpisode => current = NoEpisode
    OBVIOUS
  <1> HIDE DEF current
  <1>9. l.position = ledger.position /\ l.past = past /\ l.current = current
    BY <1>1, Zenon DEF MarketLedger
  <1> QED
    BY <1>3, <1>4, <1>5, <1>6, <1>7, <1>8, <1>9 DEF SameSpan

---------------------------------------------------------------------------
(* Inventory shown as live is live.                                        *)

\* The books follow the executions, and a settlement comes after all of them.
BooksFollow ==
    \A i \in DOMAIN history : \A s \in Subaccounts :
        books[i + 1].held[s] =
            books[i].held[s] + (IF history[i].sub = s THEN Signed(history[i]) ELSE 0)

SettlementIsLast ==
    settlement # Unsettled => \A i \in DOMAIN history : history[i].time <= settlement.time

\* What the audit was told of settlements and positions was so.
ViewsAreTrue ==
    /\ pc = "live" => audit = NoAudit
    /\ audit.begun \/ audit.settled \/ audit.row # Unsettled => settlement # Unsettled
    /\ audit.begun /\ audit.said = "quantity" => audit.quantity = 0
    /\ audit.settled /\ audit.row = Unsettled /\ audit.floor # None =>
          audit.floor > settlement.time

\* What an open episode says of itself, while it is replayed and at the end.
OpenIsHonest(open) ==
    open # NoEpisode =>
        /\ \E f \in audit.fills : open.last = f.time
        /\ pc \in {"authority", "done"} /\ audit.row # Unsettled => ~open.outcomeProvable
        /\ pc = "done" /\ open.outcomeProvable => audit.floor = None \/ open.last >= audit.floor

\* An authority an open episode earned was earned on the exchange's quantity.
AuthorityIsEarned(ledger) ==
    pc = "done" /\ ledger.current # NoEpisode /\ ledger.current.authority \in EARNED_AUTHORITY =>
        /\ audit.row = Unsettled /\ audit.said = "quantity"
        /\ audit.quantity = ledger.position

ViewInv ==
    /\ BooksFollow /\ SettlementIsLast /\ ViewsAreTrue
    /\ \A s \in Subaccounts : OpenIsHonest(ledgers[s].current) /\ AuthorityIsEarned(ledgers[s])

LEMMA InitViewInv == Init => ViewInv
  <1> SUFFICES ASSUME Init PROVE ViewInv
    OBVIOUS
  <1>1. \A s \in Subaccounts : ledgers[s].current = NoEpisode
    BY DEF Init, Flat
  <1>2. /\ DOMAIN history = {} /\ settlement = Unsettled /\ audit = NoAudit /\ pc = "live"
    BY DEF Init
  <1>3. ViewsAreTrue
    BY <1>2 DEF ViewsAreTrue, NoAudit
  <1> QED
    BY <1>1, <1>2, <1>3 DEF ViewInv, BooksFollow, SettlementIsLast, OpenIsHonest, AuthorityIsEarned

\* No episode is open while the routes are read.
LEMMA ReadsAreFlat ==
    ASSUME IInv, pc \in Reads, ledgers' = ledgers
    PROVE  \A s \in Subaccounts :
              OpenIsHonest(ledgers[s].current)' /\ AuthorityIsEarned(ledgers[s])'
  <1>1. \A s \in Subaccounts : ledgers'[s].current = NoEpisode
    BY DEF IInv, Flat
  <1> QED
    BY <1>1 DEF OpenIsHonest, AuthorityIsEarned

LEMMA ExchangeKeepsViews ==
    ASSUME IInv, ViewInv,
           \/ \E fill \in Fill : Execute(fill)
           \/ \E time \in Times, value \in {0, One}, readable \in BOOLEAN, fee \in SettlementFees :
                SettleMarket(time, value, readable, fee)
           \/ AdvanceCutoff
    PROVE  ViewInv'
  <1>1. /\ pc \in Reads /\ UNCHANGED <<pc, audit, todo, ledgers>>
        /\ history \in Seq(Fill) /\ books \in Seq(Book) /\ Len(books) = Len(history) + 1
    BY DEF IInv, TypeOK, Execute, SettleMarket, AdvanceCutoff
  <1>2. CASE \E fill \in Fill : Execute(fill)
    <2>1. PICK fill \in Fill : Execute(fill)
      BY <1>2
    <2>2. /\ history' = Append(history, fill) /\ books' = Append(books, Booked(LastBook, fill))
          /\ settlement = Unsettled /\ settlement' = Unsettled
      BY <2>1 DEF Execute
    <2>3. LastBook = books[Len(history) + 1] /\ LastBook \in Book
      BY <1>1 DEF LastBook
    <2>4. ASSUME NEW i \in DOMAIN history', NEW s \in Subaccounts
          PROVE  books'[i + 1].held[s] =
                    books'[i].held[s] + (IF history'[i].sub = s THEN Signed(history'[i]) ELSE 0)
      <3>1. CASE i \in DOMAIN history
        <4>1. /\ history'[i] = history[i] /\ books'[i] = books[i] /\ books'[i + 1] = books[i + 1]
          BY <1>1, <2>2, <3>1
        <4> QED
          BY <3>1, <4>1 DEF ViewInv, BooksFollow
      <3>2. CASE i = Len(history) + 1
        <4>1. /\ history'[i] = fill /\ books'[i] = LastBook /\ books'[i + 1] = Booked(LastBook, fill)
          BY <1>1, <2>2, <2>3, <3>2, BookedIsABook
        <4>2. LastBook.held \in [Subaccounts -> Int] /\ Signed(fill) \in Int
          BY <2>3, FillWorth DEF Book
        <4>3. Booked(LastBook, fill).held =
                 [LastBook.held EXCEPT ![fill.sub] = LastBook.held[fill.sub] + Signed(fill)]
          BY DEF Booked
        <4> QED
          BY <4>1, <4>2, <4>3
      <3> QED
        BY <1>1, <2>2, <3>1, <3>2
    <2>5. BooksFollow'
      BY <2>4 DEF BooksFollow, Signed, Count
    <2>6. SettlementIsLast' /\ ViewsAreTrue'
      BY <1>1, <2>2 DEF ViewInv, SettlementIsLast, ViewsAreTrue
    <2> QED
      BY <1>1, <2>5, <2>6, ReadsAreFlat DEF ViewInv
  <1>3. CASE \E time \in Times, value \in {0, One}, readable \in BOOLEAN, fee \in SettlementFees :
                SettleMarket(time, value, readable, fee)
    <2>1. PICK time \in Times, value \in {0, One}, readable \in BOOLEAN, fee \in SettlementFees :
                SettleMarket(time, value, readable, fee)
      BY <1>3
    <2>2. /\ UNCHANGED <<history, books>> /\ settlement = Unsettled /\ settlement'.time = time
          /\ \A i \in DOMAIN history : history[i].time <= time
      BY <2>1 DEF SettleMarket
    <2>3. settlement' # Unsettled
      BY <2>2, ClockAndBounds DEF Unsettled, Times, None
    <2>4. BooksFollow' /\ SettlementIsLast' /\ ViewsAreTrue'
      BY <1>1, <2>2, <2>3 DEF ViewInv, BooksFollow, SettlementIsLast, ViewsAreTrue
    <2> QED
      BY <1>1, <2>4, ReadsAreFlat DEF ViewInv
  <1>4. CASE AdvanceCutoff
    <2>1. UNCHANGED <<history, books, settlement>>
      BY <1>4 DEF AdvanceCutoff
    <2>2. BooksFollow' /\ SettlementIsLast' /\ ViewsAreTrue'
      BY <1>1, <2>1 DEF ViewInv, BooksFollow, SettlementIsLast, ViewsAreTrue
    <2> QED
      BY <1>1, <2>2, ReadsAreFlat DEF ViewInv
  <1> QED
    BY <1>2, <1>3, <1>4

\* The fields of the audit after its first read.
LEMMA FirstRead ==
    ASSUME IInv, NEW fills \in SUBSET Fill, audit' = [Begun EXCEPT !.fills = fills]
    PROVE  /\ audit'.fills = fills /\ audit'.from = Len(history)
           /\ audit'.begun = (settlement # Unsettled)
           /\ audit'.complete = audit.complete /\ audit'.row = audit.row
           /\ audit'.floor = audit.floor /\ audit'.said = audit.said
           /\ audit'.quantity = audit.quantity /\ audit'.settled = audit.settled
  <1> DEFINE from == Len(history)
             begun == settlement # Unsettled
             first == [audit EXCEPT !.from = from, !.begun = begun]
  <1>1. /\ audit \in Audit /\ audit' = [first EXCEPT !.fills = fills]
        /\ from \in Nat /\ begun \in BOOLEAN
    BY DEF Begun, IInv, TypeOK
  <1>2. begun = (settlement # Unsettled) /\ from = Len(history)
    OBVIOUS
  <1>3. first = [audit EXCEPT !.from = from, !.begun = begun]
    OBVIOUS
  <1> HIDE DEF from, begun, first
  <1>4. first \in Audit
    BY <1>1, <1>3, Zenon DEF Audit
  <1>5. /\ first.from = from /\ first.begun = begun
        /\ first.complete = audit.complete /\ first.row = audit.row
        /\ first.floor = audit.floor /\ first.said = audit.said
        /\ first.quantity = audit.quantity /\ first.settled = audit.settled
    BY <1>1, <1>3, Zenon DEF Audit
  <1>6. /\ audit'.from = first.from /\ audit'.begun = first.begun /\ audit'.fills = fills
        /\ audit'.complete = first.complete /\ audit'.row = first.row
        /\ audit'.floor = first.floor /\ audit'.said = first.said
        /\ audit'.quantity = first.quantity /\ audit'.settled = first.settled
    BY <1>1, <1>4, Zenon DEF Audit
  <1> QED
    BY <1>2, <1>5, <1>6

\* What the routes serve are fills.
LEMMA ServedAreFills ==
    ASSUME IInv, NEW served, \/ served \in Parsed(Live) \/ served \in Parsed(Archived)
                             \/ \E rows \in Newest(Live) \cup Newest(Archived) : served \in Parsed(rows)
    PROVE  served \in SUBSET Fill
  <1>1. \A f \in served : \E i \in DOMAIN history : history[i] = f
    BY ServedAreExecuted
  <1> QED
    BY <1>1 DEF IInv, TypeOK

LEMMA ReadingKeepsViews ==
    ASSUME IInv, ViewInv,
           \/ WalkLive \/ WalkBounded \/ WalkArchive \/ ArchiveFails
           \/ SkipReconciliation \/ ReadSettlements \/ ReadPositions
    PROVE  ViewInv'
  <1>1. /\ pc \in Reads /\ UNCHANGED <<history, books, cutoff, settlement, ledgers>> /\ pc' # "live"
        /\ audit \in Audit
    BY DEF IInv, TypeOK, WalkLive, WalkBounded, WalkArchive, ArchiveFails, SkipReconciliation,
           ReadSettlements, ReadPositions, Reads, exchange
  <1>2. BooksFollow' /\ SettlementIsLast'
    BY <1>1 DEF ViewInv, BooksFollow, SettlementIsLast
  <1>3. SUFFICES ViewsAreTrue'
    BY <1>1, <1>2, ReadsAreFlat DEF ViewInv
  <1>4. ViewsAreTrue
    BY DEF ViewInv
  <1>5. CASE WalkLive \/ WalkBounded
    <2>1. PICK served :
            /\ served \in Parsed(Live) \/ \E rows \in Newest(Live) : served \in Parsed(rows)
            /\ audit' = [Begun EXCEPT !.fills = served]
      BY <1>5, Zenon DEF WalkLive, WalkBounded
    <2>2. served \in SUBSET Fill
      BY <2>1, ServedAreFills
    <2>3. /\ audit'.begun = (settlement # Unsettled) /\ audit'.row = audit.row
          /\ audit'.floor = audit.floor /\ audit'.said = audit.said
          /\ audit'.settled = audit.settled
      BY <2>1, <2>2, FirstRead
    <2>4. audit = NoAudit
      BY <1>4, <1>5 DEF ViewsAreTrue, WalkLive, WalkBounded
    <2>5. ~audit.settled /\ audit.row = Unsettled /\ audit.said = "not_asked"
      BY <2>4 DEF NoAudit
    <2> QED
      BY <1>1, <2>3, <2>5 DEF ViewsAreTrue
  <1>6. CASE WalkArchive \/ ArchiveFails
    <2>1. PICK served :
            \/ audit' = [audit EXCEPT !.fills = audit.fills \cup served, !.complete = TRUE]
            \/ audit' = [audit EXCEPT !.fills = audit.fills \cup served]
      BY <1>6, Zenon DEF WalkArchive, ArchiveFails
    <2>2. /\ audit'.begun = audit.begun /\ audit'.row = audit.row
          /\ audit'.floor = audit.floor /\ audit'.said = audit.said
          /\ audit'.settled = audit.settled /\ audit'.quantity = audit.quantity
      BY <1>1, <2>1, Zenon DEF Audit
    <2> QED
      BY <1>1, <1>4, <2>2 DEF ViewsAreTrue
  <1>7. CASE SkipReconciliation
    BY <1>1, <1>4, <1>7 DEF ViewsAreTrue, SkipReconciliation
  <1>8. CASE ReadSettlements
    <2>1. PICK view \in SettlementViews :
            audit' = [audit EXCEPT !.row = view[1], !.floor = view[2],
                                   !.settled = settlement # Unsettled,
                                   !.whole = Cardinality(audit.fills) = Len(history)]
      BY <1>8 DEF ReadSettlements
    <2> DEFINE settled == settlement # Unsettled
               whole == Cardinality(audit.fills) = Len(history)
               row == view[1]
               floor == view[2]
    <2>2. /\ settlement = Unsettled => row = Unsettled
          /\ settlement # Unsettled /\ row = Unsettled /\ floor # None => floor > settlement.time
      BY DEF SettlementViews
    <2>3. audit' = [audit EXCEPT !.row = row, !.floor = floor, !.settled = settled, !.whole = whole]
      BY <2>1
    <2>4. settled = (settlement # Unsettled)
      OBVIOUS
    <2> HIDE DEF settled, whole, row, floor
    <2>5. /\ audit'.row = row /\ audit'.floor = floor /\ audit'.settled = settled
          /\ audit'.begun = audit.begun /\ audit'.said = audit.said
          /\ audit'.quantity = audit.quantity
      BY <1>1, <2>3, Zenon DEF Audit
    <2> QED
      BY <1>1, <1>4, <2>2, <2>4, <2>5 DEF ViewsAreTrue
  <1>9. CASE ReadPositions
    <2> DEFINE book == BookNow
    <2>1. PICK said \in {"unreadable", "quantity", "absent"} :
            audit' = [audit EXCEPT !.said = said,
                        !.quantity = IF said = "quantity" THEN book.longs - book.shorts ELSE 0]
      BY <1>9 DEF ReadPositions
    <2> DEFINE quantity == IF said = "quantity" THEN book.longs - book.shorts ELSE 0
    <2>2. settlement # Unsettled => quantity = 0
      BY DEF BookNow, Book0
    <2>3. audit' = [audit EXCEPT !.said = said, !.quantity = quantity]
      BY <2>1
    <2> HIDE DEF quantity
    <2>4. /\ audit'.row = audit.row /\ audit'.floor = audit.floor /\ audit'.settled = audit.settled
          /\ audit'.begun = audit.begun /\ audit'.said = said /\ audit'.quantity = quantity
      BY <1>1, <2>3, Zenon DEF Audit
    <2> QED
      BY <1>1, <1>4, <2>2, <2>4 DEF ViewsAreTrue
  <1> QED
    BY <1>5, <1>6, <1>7, <1>8, <1>9

\* What apply_fill leaves open ended its last execution with that fill.
LEMMA OpenEndsWithTheFill ==
    ASSUME NEW ledger, Sound(ledger), NEW fill \in Fill,
           NEW l, l = Applied(ledger, fill), l.current # NoEpisode
    PROVE  l.current.last = fill.time
  <1>1. AppliedTo(l, ledger, fill, ledger.position + Signed(fill))
    BY ApplyingIs
  <1> QED
    BY <1>1 DEF AppliedTo, OpenedBy, Extends

\* A market that is replayed and has an open episode is held somewhere.
LEMMA OpenIsHeld ==
    ASSUME NEW s \in Subaccounts, ledgers[s].current # NoEpisode
    PROVE  s \in HeldIn
  BY DEF HeldIn, Episodes

\* An open episode earns its authority on the exchange's quantity alone.
LEMMA EarnedOpen ==
    ASSUME NEW ledger, OpenAuthority(ledger) \in EARNED_AUTHORITY
    PROVE  /\ ~SettlementEvidence /\ audit.said = "quantity"
           /\ audit.quantity = ledger.position
  <1>1. CASE SettlementEvidence
    BY <1>1 DEF OpenAuthority, EARNED_AUTHORITY
  <1>2. CASE ~SettlementEvidence /\ audit.said = "not_asked"
    BY <1>2 DEF OpenAuthority, EARNED_AUTHORITY
  <1>3. CASE ~SettlementEvidence /\ audit.said = "absent"
    BY <1>3 DEF OpenAuthority, EARNED_AUTHORITY
  <1>4. CASE ~SettlementEvidence /\ audit.said # "not_asked" /\ audit.said # "absent"
    BY <1>4 DEF OpenAuthority, EARNED_AUTHORITY
  <1> QED
    BY <1>1, <1>2, <1>3, <1>4

LEMMA ReplayKeepsViews ==
    ASSUME IInv, ViewInv,
           \/ \E fill \in todo : ApplyFill(fill)
           \/ ApplySettlement \/ AssignAuthority \/ Restart
    PROVE  ViewInv'
  <1>1. /\ UNCHANGED <<history, books, cutoff, settlement>>
        /\ ledgers \in [Subaccounts -> MarketLedger] /\ \A s \in Subaccounts : Sound(ledgers[s])
    BY DEF IInv, TypeOK, ApplyFill, ApplySettlement, AssignAuthority, Restart, exchange
  <1>2. BooksFollow' /\ SettlementIsLast'
    BY <1>1 DEF ViewInv, BooksFollow, SettlementIsLast
  <1>3. ASSUME audit' = audit, pc' # "live",
               \A s \in Subaccounts :
                  OpenIsHonest(ledgers[s].current)' /\ AuthorityIsEarned(ledgers[s])'
        PROVE  ViewInv'
    BY <1>1, <1>2, <1>3 DEF ViewInv, ViewsAreTrue
  <1>4. CASE \E fill \in todo : ApplyFill(fill)
    <2>1. PICK fill \in todo : ApplyFill(fill)
      BY <1>4
    <2>2. /\ pc = "fills" /\ pc' = "fills" /\ audit' = audit
          /\ ledgers' = [ledgers EXCEPT ![fill.sub] = Applied(ledgers[fill.sub], fill)]
      BY <2>1 DEF ApplyFill
    <2>3. fill \in Fill /\ fill \in audit.fills /\ fill.sub \in Subaccounts
      BY DEF IInv, TypeOK, Audit, Fill
    <2>4. ASSUME NEW s \in Subaccounts, ledgers'[s].current # NoEpisode
          PROVE  \E f \in audit.fills : ledgers'[s].current.last = f.time
      <3>1. CASE s = fill.sub
        <4>1. ledgers'[s] = Applied(ledgers[s], fill)
          BY <1>1, <2>2, <2>3, <3>1
        <4> QED
          BY <1>1, <2>3, <2>4, <4>1, OpenEndsWithTheFill
      <3>2. CASE s # fill.sub
        <4>1. ledgers'[s] = ledgers[s]
          BY <1>1, <2>2, <3>2
        <4> QED
          BY <2>4, <4>1 DEF ViewInv, OpenIsHonest
      <3> QED
        BY <3>1, <3>2
    <2>5. \A s \in Subaccounts :
              OpenIsHonest(ledgers[s].current)' /\ AuthorityIsEarned(ledgers[s])'
      BY <2>2, <2>4 DEF OpenIsHonest, AuthorityIsEarned
    <2> QED
      BY <1>3, <2>2, <2>5
  <1>5. CASE ApplySettlement
    <2> DEFINE Step(s) == IF ~SettlementEvidence THEN ledgers[s]
                          ELSE IF HeldIn = {s} /\ ~Refuses(ledgers[s], audit.row)
                          THEN Settled(ledgers[s], audit.row) ELSE Unresolved(ledgers[s])
    <2>1. /\ audit' = audit /\ pc' = "authority" /\ ledgers' = [s \in Subaccounts |-> Step(s)]
      BY <1>5 DEF ApplySettlement
    <2>2. ASSUME NEW s \in Subaccounts, Step(s).current # NoEpisode
          PROVE  /\ \E f \in audit.fills : Step(s).current.last = f.time
                 /\ audit.row # Unsettled => ~Step(s).current.outcomeProvable
      <3> DEFINE l == Step(s)
      <3>1. CASE ~SettlementEvidence
        <4>1. l = ledgers[s] /\ ledgers[s].current # NoEpisode
          BY <2>2, <3>1
        <4>2. audit.row = Unsettled
          BY <3>1, <4>1, OpenIsHeld DEF SettlementEvidence
        <4> QED
          BY <4>1, <4>2 DEF ViewInv, OpenIsHonest
      <3>2. CASE SettlementEvidence /\ HeldIn = {s} /\ ~Refuses(ledgers[s], audit.row)
        <4>1. l = Settled(ledgers[s], audit.row)
          BY <3>2
        <4> HIDE DEF l
        <4>2. l.current = NoEpisode
          BY <1>1, <4>1, SettlingCloses
        <4> QED
          BY <2>2, <4>2 DEF l
      <3>3. CASE SettlementEvidence /\ ~(HeldIn = {s} /\ ~Refuses(ledgers[s], audit.row))
        <4>1. l = Unresolved(ledgers[s])
          BY <3>3
        <4>2. l.current # NoEpisode
          BY <2>2
        <4> HIDE DEF l
        <4>3. /\ ledgers[s].current # NoEpisode
              /\ l.current.last = ledgers[s].current.last /\ ~l.current.outcomeProvable
          BY <1>1, <4>1, <4>2, UnresolvedStays DEF SameSpan
        <4>4. \E f \in audit.fills : l.current.last = f.time
          BY <4>3 DEF ViewInv, OpenIsHonest
        <4> QED
          BY <4>3, <4>4 DEF l
      <3> QED
        BY <3>1, <3>2, <3>3
    <2> HIDE DEF Step
    <2>3. \A s \in Subaccounts : ledgers'[s] = Step(s)
      BY <2>1
    <2>4. \A s \in Subaccounts :
              OpenIsHonest(ledgers[s].current)' /\ AuthorityIsEarned(ledgers[s])'
      BY <2>1, <2>2, <2>3 DEF OpenIsHonest, AuthorityIsEarned
    <2> QED
      BY <1>3, <2>1, <2>4
  <1>6. CASE AssignAuthority
    <2>1. /\ audit' = audit /\ pc = "authority" /\ pc' = "done"
          /\ ledgers' = [s \in Subaccounts |-> Authorised(ledgers[s])]
      BY <1>6 DEF AssignAuthority, Authorised
    <2>2. \A s \in Subaccounts : ledgers'[s] = Authorised(ledgers[s])
      BY <2>1
    <2>3. ASSUME NEW s \in Subaccounts, ledgers'[s].current # NoEpisode
          PROVE  /\ \E f \in audit.fills : ledgers'[s].current.last = f.time
                 /\ audit.row # Unsettled => ~ledgers'[s].current.outcomeProvable
                 /\ ledgers'[s].current.outcomeProvable =>
                       audit.floor = None \/ ledgers'[s].current.last >= audit.floor
                 /\ ledgers'[s].current.authority \in EARNED_AUTHORITY =>
                       /\ audit.row = Unsettled /\ audit.said = "quantity"
                       /\ audit.quantity = ledgers'[s].position
      <3> DEFINE l == ledgers'[s]
                 ledger == ledgers[s]
      <3>1. ledger \in MarketLedger /\ l = Authorised(ledger) /\ l.current # NoEpisode
        BY <1>1, <2>2, <2>3
      <3>2. OpenIsHonest(ledger.current)
        BY DEF ViewInv
      <3> HIDE DEF l
      <3>3. ledger.current # NoEpisode
        BY <3>1, AuthorisingMarks
      <3>4. SettlementEvidence <=> audit.row # Unsettled
        BY <3>3, OpenIsHeld DEF SettlementEvidence
      <3>5. /\ l.position = ledger.position /\ l.current.last = ledger.current.last
            /\ l.current.authority = OpenAuthority(ledger)
            /\ l.current.outcomeProvable =>
                  /\ ledger.current.outcomeProvable
                  /\ SettlementEvidence \/ audit.floor = None \/ ledger.current.last >= audit.floor
        BY <3>1, <3>3, AuthorisingMarks DEF SameSpan
      <3>6. /\ \E f \in audit.fills : ledger.current.last = f.time
            /\ audit.row # Unsettled => ~ledger.current.outcomeProvable
        BY <2>1, <3>2, <3>3 DEF OpenIsHonest
      <3>7. l.current.authority \in EARNED_AUTHORITY =>
               /\ audit.row = Unsettled /\ audit.said = "quantity" /\ audit.quantity = l.position
        BY <3>4, <3>5, EarnedOpen
      <3> QED
        BY <3>4, <3>5, <3>6, <3>7 DEF l
    <2>4. \A s \in Subaccounts :
              OpenIsHonest(ledgers[s].current)' /\ AuthorityIsEarned(ledgers[s])'
      BY <2>1, <2>3 DEF OpenIsHonest, AuthorityIsEarned
    <2> QED
      BY <1>3, <2>1, <2>4
  <1>7. CASE Restart
    <2>1. /\ pc' = "live" /\ audit' = NoAudit /\ ledgers' = [s \in Subaccounts |-> Flat]
      BY <1>7 DEF Restart
    <2>2. \A s \in Subaccounts : ledgers'[s].current = NoEpisode
      BY <2>1 DEF Flat
    <2>3. ViewsAreTrue'
      BY <2>1 DEF ViewsAreTrue, NoAudit
    <2> QED
      BY <1>2, <2>2, <2>3 DEF ViewInv, OpenIsHonest, AuthorityIsEarned
  <1> QED
    BY <1>4, <1>5, <1>6, <1>7

LEMMA NextKeepsViews == ASSUME IInv, ViewInv, [Next]_vars PROVE ViewInv'
  <1>1. CASE UNCHANGED vars
    BY <1>1 DEF vars, ViewInv, BooksFollow, SettlementIsLast, ViewsAreTrue, OpenIsHonest,
                AuthorityIsEarned, Signed, Count
  <1> QED
    BY <1>1, ExchangeKeepsViews, ReadingKeepsViews, ReplayKeepsViews DEF Next

LEMMA ViewsInductive == Spec => []ViewInv
  <1>1. Init => ViewInv
    BY InitViewInv
  <1>2. IInv /\ ViewInv /\ [Next]_vars => ViewInv'
    BY NextKeepsViews
  <1> QED
    BY <1>1, <1>2, Inductive, PTL DEF Spec

\* Inventory shown as live is live, whatever the routes serve and whenever the
\* market settles between their reads (engine.py: _mark_outcome_unprovable,
\* _mark_settlement_coverage): an episode left open after a settlement the
\* audit was told of, or that fell behind the settlements route's floor, never
\* counts as provable.
THEOREM ShownLiveIsLive == Spec => []LiveInventoryIsLive
  <1>1. ASSUME IInv, ViewInv PROVE LiveInventoryIsLive
    <2> SUFFICES ASSUME pc = "done", audit.settled, audit.row # Unsettled \/ audit.floor # None,
                        NEW s \in Subaccounts, ledgers[s].current # NoEpisode,
                        ledgers[s].current.outcomeProvable
                 PROVE  FALSE
      BY DEF LiveInventoryIsLive
    <2> DEFINE open == ledgers[s].current
    <2>1. /\ audit.row = Unsettled /\ audit.floor # None /\ open.last >= audit.floor
          /\ \E f \in audit.fills : open.last = f.time
      BY <1>1 DEF ViewInv, OpenIsHonest
    <2>2. settlement # Unsettled /\ audit.floor > settlement.time
      BY <1>1, <2>1 DEF ViewInv, ViewsAreTrue
    <2>3. PICK i \in DOMAIN history : open.last = history[i].time
      BY <1>1, <2>1 DEF IInv
    <2>4. open.last <= settlement.time
      BY <1>1, <2>2, <2>3 DEF ViewInv, SettlementIsLast
    <2>5. open.last \in Int /\ settlement.time \in Int /\ audit.floor \in Int
      <3>1. history[i] \in Fill /\ settlement \in Settlement /\ audit \in Audit
        BY <1>1, <2>2, <2>3 DEF IInv, TypeOK
      <3>2. open.last \in Times /\ settlement.time \in Times /\ audit.floor \in Times
        BY <2>1, <2>3, <3>1 DEF Fill, Settlement, Audit
      <3> QED
        BY <3>2 DEF Times
    <2> QED
      BY <2>1, <2>2, <2>4, <2>5
  <1> QED
    BY <1>1, Inductive, ViewsInductive, PTL

---------------------------------------------------------------------------
(* The order of the executions.                                            *)

\* Executions are in the canonical order, and the account began with nothing.
HistoryInv ==
    /\ \A i, j \in DOMAIN history : i < j => Before(history[i], history[j])
    /\ books[1] = Book0

LEMMA HistoryIsOrdered == ASSUME TiesFollowIds PROVE Spec => []HistoryInv
  <1>1. Init => HistoryInv
    <2> SUFFICES ASSUME Init PROVE HistoryInv
      OBVIOUS
    <2>1. DOMAIN history = {} /\ books[1] = Book0
      BY DEF Init
    <2> QED
      BY <2>1 DEF HistoryInv
  <1>2. ASSUME IInv, HistoryInv, [Next]_vars PROVE HistoryInv'
    <2>0. /\ history \in Seq(Fill) /\ books \in Seq(Book) /\ Len(books) = Len(history) + 1
      BY <1>2 DEF IInv, TypeOK
    <2>1. ASSUME NEW fill \in Fill, Execute(fill) PROVE HistoryInv'
      <3>1. /\ history' = Append(history, fill) /\ books' = Append(books, Booked(LastBook, fill))
            /\ \A i \in DOMAIN history :
                  /\ history[i].id # fill.id /\ history[i].time <= fill.time
                  /\ history[i].time = fill.time => history[i].id < fill.id
        BY <2>1, TiesFollowIds DEF Execute
      <3>2. books'[1] = Book0
        BY <1>2, <2>0, <3>1 DEF HistoryInv
      <3>3. ASSUME NEW i \in DOMAIN history', NEW j \in DOMAIN history', i < j
            PROVE  Before(history'[i], history'[j])
        <4>1. i \in DOMAIN history /\ history'[i] = history[i]
          BY <2>0, <3>1, <3>3
        <4>2. CASE j \in DOMAIN history
          <5>1. history'[j] = history[j]
            BY <2>0, <3>1, <4>2
          <5> QED
            BY <1>2, <3>3, <4>1, <4>2, <5>1 DEF HistoryInv
        <4>3. CASE j \notin DOMAIN history
          <5>1. history'[j] = fill
            BY <2>0, <3>1, <3>3, <4>3
          <5>2. history[i].time \in Int /\ fill.time \in Int
            <6>1. history[i] \in Fill
              BY <2>0, <4>1
            <6> QED
              BY <6>1 DEF Fill, Times
          <5> QED
            BY <3>1, <4>1, <5>1, <5>2 DEF Before
        <4> QED
          BY <4>2, <4>3
      <3> QED
        BY <3>2, <3>3 DEF HistoryInv, Before
    <2>2. CASE ~(\E fill \in Fill : Execute(fill))
      <3>1. UNCHANGED <<history, books>>
        BY <1>2, <2>2 DEF Next, SettleMarket, AdvanceCutoff, WalkLive, WalkBounded, WalkArchive,
                    ArchiveFails, SkipReconciliation, ReadSettlements, ReadPositions, ApplyFill,
                    ApplySettlement, AssignAuthority, Restart, vars, exchange
      <3> QED
        BY <1>2, <3>1 DEF HistoryInv, Before
    <2> QED
      BY <2>1, <2>2
  <1> QED
    BY <1>1, <1>2, Inductive, PTL DEF Spec

\* Of a set of executions there is a first one.
LEMMA FirstOf ==
    ASSUME NEW T, T \subseteq Nat, T # {}
    PROVE  \E n \in T : \A i \in T : n <= i
  <1>1. PICK n \in T : \A i \in T : ~(<<i, n>> \in OpToRel(<, Nat))
    BY NatLessThanWellFounded, WFMin
  <1>2. ASSUME NEW i \in T, i < n PROVE FALSE
    <2>1. i \in Nat /\ n \in Nat
      OBVIOUS
    <2>2. <<i, n>> \in OpToRel(<, Nat)
      BY <1>2, <2>1 DEF OpToRel
    <2> QED
      BY <1>1, <2>2
  <1>3. \A i \in T : i \in Nat /\ n \in Nat
    OBVIOUS
  <1> QED
    BY <1>2, <1>3

\* What the archive serves are the first executions.
LEMMA ArchivedAreFirst ==
    ASSUME IInv, HistoryInv
    PROVE  \E n \in 0..Len(history) : \A j \in DOMAIN history : history[j].time < cutoff <=> j <= n
  <1> DEFINE young == {j \in DOMAIN history : ~(history[j].time < cutoff)}
  <1>1. /\ history \in Seq(Fill) /\ DOMAIN history = 1..Len(history) /\ Len(history) \in Nat
        /\ cutoff \in Int
    BY DEF IInv, TypeOK, Times
  <1>2. \A j \in DOMAIN history : history[j].time \in Int
    <2> TAKE j \in DOMAIN history
    <2>1. history[j] \in Fill
      BY <1>1
    <2> QED
      BY <2>1 DEF Fill, Times
  <1>3. CASE young = {}
    <2>1. Len(history) \in 0..Len(history)
      BY <1>1
    <2>2. \A j \in DOMAIN history : history[j].time < cutoff <=> j <= Len(history)
      BY <1>1, <1>3
    <2> QED
      BY <2>1, <2>2, Zenon
  <1>4. CASE young # {}
    <2>0. young \subseteq Nat
      BY <1>1
    <2>1. PICK n \in young : \A i \in young : n <= i
      <3> HIDE DEF young
      <3> QED
        BY <1>4, <2>0, FirstOf
    <2>2. ASSUME NEW j \in DOMAIN history, n < j PROVE ~(history[j].time < cutoff)
      <3>1. history[n].time <= history[j].time
        BY <1>2, <2>1, <2>2 DEF HistoryInv, Before
      <3> QED
        BY <1>1, <1>2, <2>1, <3>1
    <2>3. n - 1 \in 0..Len(history)
      BY <1>1, <2>1
    <2>4. \A j \in DOMAIN history : history[j].time < cutoff <=> j <= n - 1
      BY <1>1, <2>1, <2>2
    <2> QED
      BY <2>3, <2>4
  <1> QED
    BY <1>3, <1>4

---------------------------------------------------------------------------
(* What was read is a prefix of the executions, and the replay follows it. *)

\* Between the two walks: every execution there was when the live walk began,
\* except those older than a cutoff that has only grown since.
WalkedInv ==
    pc = "archive" =>
        /\ ~audit.complete /\ audit.from \in 0..Len(history)
        /\ \E c \in 0..cutoff : \A j \in DOMAIN history :
              (history[j] \in audit.fills) <=> (j <= audit.from /\ history[j].time >= c)

ReadUpTo(m) == \A j \in DOMAIN history : (history[j] \in audit.fills) <=> j <= m
LeftToReplay(k, m) == \A j \in DOMAIN history : (history[j] \in todo) <=> (k < j /\ j <= m)

\* The executions up to k of the true episode that i opened.
Span(i, k) ==
    {history[j].id : j \in {n \in i..k :
        /\ history[n].sub = history[i].sub
        /\ \A m \in i + 1..n - 1 : history[m].sub = history[i].sub => ~Ends(m)}}

EndedBy(i, k) == \E j \in i + 1..k : history[j].sub = history[i].sub /\ Ends(j)

\* After execution k, episode e is what there is of the true one i opened.
IsTrueOf(e, s, k, i) ==
    /\ history[i].sub = s /\ history[i].id = e.opening
    /\ Opens(i) /\ Sign(HeldAfter(i)) = e.sign /\ e.fills = Span(i, k)
    /\ e.closedBy = "fill" => EndedBy(i, k)
    /\ e.closedBy = "nothing" => ~EndedBy(i, k)

EpisodeIsTrue(e, s, k) ==
    /\ \E i \in 1..k : IsTrueOf(e, s, k, i)
    /\ e.authority = "closed_by_fills" => e.closedBy = "fill"
    /\ e.closedBy = "settlement" => pc # "fills"

\* The replay has come to execution k of the m that were read.
ReplayedTo(k, m) ==
    /\ LeftToReplay(k, m)
    /\ \A s \in Subaccounts : \A e \in Episodes(ledgers[s]) : EpisodeIsTrue(e, s, k)
    /\ pc = "fills" \/ audit.row = Unsettled =>
          \A s \in Subaccounts : ledgers[s].position = books[k + 1].held[s]

ReadOnly == pc \in Reads => \E m \in audit.from..Len(history) : ReadUpTo(m)
Following ==
    pc \notin Reads =>
        \E m \in audit.from..Len(history) : ReadUpTo(m) /\ \E k \in 0..m : ReplayedTo(k, m)

ClaimInv == WalkedInv /\ (audit.complete => ReadOnly /\ Following)

LEMMA ExchangeKeepsClaims ==
    ASSUME IInv, ViewInv, ClaimInv,
           \/ \E fill \in Fill : Execute(fill)
           \/ \E time \in Times, value \in {0, One}, readable \in BOOLEAN, fee \in SettlementFees :
                SettleMarket(time, value, readable, fee)
           \/ AdvanceCutoff
    PROVE  ClaimInv'
  <1>1. /\ pc \in Reads /\ UNCHANGED <<pc, audit, todo, ledgers>>
        /\ history \in Seq(Fill) /\ cutoff \in Nat /\ audit.from \in Nat
        /\ \A f \in audit.fills : \E i \in DOMAIN history : history[i] = f
    BY DEF IInv, TypeOK, Execute, SettleMarket, AdvanceCutoff, Times, Audit
  <1>2. /\ cutoff' \in Nat /\ cutoff' >= cutoff
        /\ Len(history) <= Len(history') /\ Len(history') \in Nat
        /\ \A j \in DOMAIN history : j \in DOMAIN history' /\ history'[j] = history[j]
        /\ \A j \in DOMAIN history' \ DOMAIN history :
              j > Len(history) /\ j \in Nat /\ history'[j] \notin audit.fills
    <2>1. CASE \E fill \in Fill : Execute(fill)
      <3>1. PICK fill \in Fill : Execute(fill)
        BY <2>1
      <3>2. /\ history' = Append(history, fill) /\ cutoff' = cutoff
            /\ \A i \in DOMAIN history : history[i].id # fill.id
        BY <3>1 DEF Execute
      <3>3. fill \notin audit.fills
        BY <1>1, <3>2
      <3> QED
        BY <1>1, <3>2, <3>3
    <2>2. CASE ~(\E fill \in Fill : Execute(fill))
      <3>1. history' = history /\ (cutoff' = cutoff \/ cutoff' = cutoff + 1)
        BY <2>2 DEF SettleMarket, AdvanceCutoff
      <3> QED
        BY <1>1, <3>1
    <2> QED
      BY <2>1, <2>2
  <1>3. WalkedInv'
    <2> SUFFICES ASSUME pc = "archive" PROVE WalkedInv'
      BY <1>1 DEF WalkedInv
    <2>1. /\ ~audit.complete /\ audit.from \in 0..Len(history)
      BY DEF ClaimInv, WalkedInv
    <2>2. PICK c \in 0..cutoff : \A j \in DOMAIN history :
              (history[j] \in audit.fills) <=> (j <= audit.from /\ history[j].time >= c)
      BY DEF ClaimInv, WalkedInv
    <2>3. c \in 0..cutoff' /\ audit.from \in 0..Len(history')
      BY <1>1, <1>2, <2>1
    <2>4. \A j \in DOMAIN history' :
              (history'[j] \in audit.fills) <=> (j <= audit.from /\ history'[j].time >= c)
      BY <1>1, <1>2, <2>1, <2>2
    <2> QED
      BY <1>1, <2>1, <2>3, <2>4 DEF WalkedInv
  <1>4. ASSUME audit.complete PROVE ReadOnly' /\ Following'
    <2>1. PICK m \in audit.from..Len(history) : ReadUpTo(m)
      BY <1>1, <1>4 DEF ClaimInv, ReadOnly
    <2>2. m \in audit.from..Len(history')
      BY <1>1, <1>2
    <2>3. ReadUpTo(m)'
      BY <1>1, <1>2, <2>1 DEF ReadUpTo
    <2> QED
      BY <1>1, <2>2, <2>3 DEF ReadOnly, Following
  <1> QED
    BY <1>1, <1>3, <1>4 DEF ClaimInv

\* A complete walk read a prefix.
LEMMA WalkedAPrefix ==
    ASSUME IInv, HistoryInv, WalkedInv, pc = "archive",
           NEW fills, fills = audit.fills \cup Archived
    PROVE  \E m \in audit.from..Len(history) :
              \A j \in DOMAIN history : (history[j] \in fills) <=> j <= m
  <1>1. /\ history \in Seq(Fill) /\ DOMAIN history = 1..Len(history) /\ Len(history) \in Nat
        /\ cutoff \in Nat /\ audit.from \in 0..Len(history)
    BY DEF IInv, TypeOK, Times, WalkedInv
  <1>2. \A j \in DOMAIN history : history[j].time \in Int
    <2> TAKE j \in DOMAIN history
    <2>1. history[j] \in Fill
      BY <1>1
    <2> QED
      BY <2>1 DEF Fill, Times
  <1>3. PICK c \in 0..cutoff : \A j \in DOMAIN history :
              (history[j] \in audit.fills) <=> (j <= audit.from /\ history[j].time >= c)
    BY DEF WalkedInv
  <1>4. PICK n \in 0..Len(history) : \A j \in DOMAIN history : history[j].time < cutoff <=> j <= n
    BY ArchivedAreFirst
  <1>5. \A j \in DOMAIN history : history[j] \in Archived <=> history[j].time < cutoff
    BY DEF Archived
  <1> DEFINE m == IF n > audit.from THEN n ELSE audit.from
  <1>6. m \in audit.from..Len(history)
    BY <1>1
  <1>7. ASSUME NEW j \in DOMAIN history PROVE (history[j] \in fills) <=> j <= m
    <2>1. (history[j] \in fills) <=> (j <= audit.from /\ history[j].time >= c) \/ j <= n
      BY <1>3, <1>4, <1>5
    <2>2. history[j].time >= c \/ history[j].time < cutoff
      BY <1>1, <1>2, <1>3
    <2> QED
      BY <1>1, <1>4, <2>1, <2>2
  <1> HIDE DEF m
  <1> QED
    BY <1>6, <1>7

\* The replay begins before the first execution, on flat ledgers.
LEMMA ReplayBegins ==
    ASSUME IInv, HistoryInv, pc \in Reads, NEW m \in audit.from..Len(history), ReadUpTo(m),
           UNCHANGED <<history, books, ledgers>>, pc' = "fills", todo' = audit.fills,
           audit'.from = audit.from, audit'.fills = audit.fills
    PROVE  ReadOnly' /\ Following'
  <1>1. ReadUpTo(m)' /\ m \in audit'.from..Len(history')
    BY DEF ReadUpTo
  <1>2. m \in Nat /\ 0 \in 0..m
    BY DEF IInv, TypeOK, Audit
  <1>3. history \in Seq(Fill)
    BY DEF IInv, TypeOK
  <1>4. LeftToReplay(0, m)'
    BY <1>3 DEF ReadUpTo, LeftToReplay
  <1>5. \A s \in Subaccounts : ledgers'[s] = Flat /\ Flat.position = 0
    BY DEF IInv, Flat
  <1>6. \A s \in Subaccounts : Episodes(ledgers'[s]) = {}
    BY <1>5 DEF Flat, Episodes
  <1>7. \A s \in Subaccounts : ledgers'[s].position = books'[0 + 1].held[s]
    BY <1>5 DEF HistoryInv, Book0
  <1>8. ReplayedTo(0, m)'
    BY <1>4, <1>6, <1>7 DEF ReplayedTo, Episodes
  <1> QED
    BY <1>1, <1>2, <1>8 DEF ReadOnly, Following, Reads

LEMMA ReadingKeepsClaims ==
    ASSUME ~MayReject, IInv, HistoryInv, ViewInv, ClaimInv,
           \/ WalkLive \/ WalkBounded \/ WalkArchive \/ ArchiveFails
           \/ SkipReconciliation \/ ReadSettlements \/ ReadPositions
    PROVE  ClaimInv'
  <1>1. /\ pc \in Reads /\ UNCHANGED <<history, books, cutoff, settlement, ledgers>>
        /\ audit \in Audit /\ history \in Seq(Fill) /\ cutoff \in Nat /\ Len(history) \in Nat
        /\ DOMAIN history = 1..Len(history)
    <2>1. /\ audit \in Audit /\ history \in Seq(Fill) /\ cutoff \in Nat /\ Len(history) \in Nat
          /\ DOMAIN history = 1..Len(history)
      BY DEF IInv, TypeOK, Times
    <2>2. pc \in Reads /\ UNCHANGED <<history, books, cutoff, settlement, ledgers>>
      BY DEF WalkLive, WalkBounded, WalkArchive, ArchiveFails,
             SkipReconciliation, ReadSettlements, ReadPositions, Reads, exchange
    <2> QED
      BY <2>1, <2>2
  <1>2. \A rows : Parsed(rows) = {rows}
    BY DEF Parsed
  <1>3. pc = "live" => audit = NoAudit
    BY DEF ViewInv, ViewsAreTrue
  <1>4. CASE WalkLive
    <2>1. audit' = [Begun EXCEPT !.fills = Live] /\ pc = "live" /\ pc' = "archive"
      BY <1>2, <1>4 DEF WalkLive
    <2>2. Live \in SUBSET Fill
      BY <1>1 DEF Live
    <2>3. audit'.fills = Live /\ audit'.from = Len(history) /\ ~audit'.complete
      BY <1>3, <2>1, <2>2, FirstRead DEF NoAudit
    <2>4. \A j \in DOMAIN history :
              (history[j] \in Live) <=> (j <= Len(history) /\ history[j].time >= cutoff)
      BY <1>1 DEF Live
    <2>5. WalkedInv'
      BY <1>1, <2>1, <2>3, <2>4 DEF WalkedInv
    <2> QED
      BY <2>3, <2>5 DEF ClaimInv
  <1>5. CASE WalkBounded
    <2>1. PICK fills : /\ \E rows \in Newest(Live) : fills \in Parsed(rows)
                       /\ audit' = [Begun EXCEPT !.fills = fills]
      BY <1>5 DEF WalkBounded
    <2>2. fills \in SUBSET Fill /\ pc = "live" /\ pc' = "settlements"
      BY <1>5, <2>1, ServedAreFills DEF WalkBounded
    <2>3. ~audit'.complete
      BY <1>3, <2>1, <2>2, FirstRead DEF NoAudit
    <2> QED
      BY <2>2, <2>3 DEF ClaimInv, WalkedInv
  <1>6. CASE WalkArchive
    <2> DEFINE fills == audit.fills \cup Archived
    <2>1. /\ audit' = [audit EXCEPT !.fills = fills, !.complete = TRUE]
          /\ pc = "archive" /\ pc' = "settlements"
      BY <1>2, <1>6 DEF WalkArchive
    <2>2. PICK m \in audit.from..Len(history) :
              \A j \in DOMAIN history : (history[j] \in fills) <=> j <= m
      BY <2>1, WalkedAPrefix DEF ClaimInv
    <2> HIDE DEF fills
    <2>3. audit'.fills = fills /\ audit'.from = audit.from
      BY <1>1, <2>1, Zenon DEF Audit
    <2>4. ReadUpTo(m)'
      BY <1>1, <2>2, <2>3 DEF ReadUpTo
    <2> QED
      BY <1>1, <2>1, <2>3, <2>4 DEF ClaimInv, WalkedInv, ReadOnly, Following, Reads
  <1>7. CASE ArchiveFails
    <2>1. PICK fills : audit' = [audit EXCEPT !.fills = fills]
      BY <1>7 DEF ArchiveFails
    <2>2. /\ pc = "archive" /\ pc' = "settlements" /\ ~audit.complete
      BY <1>7 DEF ArchiveFails, ClaimInv, WalkedInv
    <2>3. ~audit'.complete
      BY <1>1, <2>1, <2>2, Zenon DEF Audit
    <2> QED
      BY <2>2, <2>3 DEF ClaimInv, WalkedInv
  <1>8. ASSUME pc' = "positions" \/ (pc' = "fills" /\ todo' = audit.fills),
               audit'.from = audit.from, audit'.fills = audit.fills,
               audit'.complete = audit.complete
        PROVE  ClaimInv'
    <2> SUFFICES ASSUME audit.complete PROVE ReadOnly' /\ Following'
      BY <1>8 DEF ClaimInv, WalkedInv
    <2>1. PICK m \in audit.from..Len(history) : ReadUpTo(m)
      BY <1>1 DEF ClaimInv, ReadOnly
    <2>2. CASE pc' = "positions"
      <3>1. ReadUpTo(m)'
        BY <1>1, <1>8, <2>1 DEF ReadUpTo
      <3> QED
        BY <1>1, <1>8, <2>1, <2>2, <3>1 DEF ReadOnly, Following, Reads
    <2>3. CASE pc' = "fills" /\ todo' = audit.fills
      BY <1>1, <1>8, <2>1, <2>3, ReplayBegins
    <2> QED
      BY <1>8, <2>2, <2>3
  <1>9. CASE SkipReconciliation
    BY <1>8, <1>9 DEF SkipReconciliation
  <1>10. CASE ReadSettlements
    <2>0. PICK view \in SettlementViews :
            audit' = [audit EXCEPT !.row = view[1], !.floor = view[2],
                                   !.settled = settlement # Unsettled,
                                   !.whole = Cardinality(audit.fills) = Len(history)]
      BY <1>10 DEF ReadSettlements
    <2> DEFINE settled == settlement # Unsettled
               whole == Cardinality(audit.fills) = Len(history)
               row == view[1]
               floor == view[2]
    <2>1. audit' = [audit EXCEPT !.row = row, !.floor = floor, !.settled = settled, !.whole = whole]
      BY <2>0
    <2> HIDE DEF settled, whole, row, floor
    <2>2. /\ audit'.from = audit.from /\ audit'.fills = audit.fills
          /\ audit'.complete = audit.complete
      BY <1>1, <2>1, Zenon DEF Audit
    <2>3. pc' = "positions"
      BY <1>10 DEF ReadSettlements
    <2> QED
      BY <1>8, <2>2, <2>3
  <1>11. CASE ReadPositions
    <2>1. PICK said, quantity : audit' = [audit EXCEPT !.said = said, !.quantity = quantity]
      BY <1>11 DEF ReadPositions
    <2>2. /\ audit'.from = audit.from /\ audit'.fills = audit.fills
          /\ audit'.complete = audit.complete
      BY <1>1, <2>1, Zenon DEF Audit
    <2>3. pc' = "fills" /\ todo' = audit.fills
      BY <1>11 DEF ReadPositions
    <2> QED
      BY <1>8, <2>2, <2>3
  <1> QED
    BY <1>4, <1>5, <1>6, <1>7, <1>9, <1>10, <1>11

\* A true episode gains the next execution of its subaccount until it ended.
LEMMA SpanStep ==
    ASSUME NEW k \in Nat, NEW i \in 1..k
    PROVE  /\ history[k + 1].sub # history[i].sub \/ EndedBy(i, k) => Span(i, k + 1) = Span(i, k)
           /\ history[k + 1].sub = history[i].sub /\ ~EndedBy(i, k) =>
                 Span(i, k + 1) = Span(i, k) \cup {history[k + 1].id}
           /\ EndedBy(i, k + 1) <=>
                 EndedBy(i, k) \/ (history[k + 1].sub = history[i].sub /\ Ends(k + 1))
  <1> DEFINE In(n) == /\ history[n].sub = history[i].sub
                      /\ \A m \in i + 1..n - 1 : history[m].sub = history[i].sub => ~Ends(m)
  <1>1. /\ Span(i, k) = {history[j].id : j \in {n \in i..k : In(n)}}
        /\ Span(i, k + 1) = {history[j].id : j \in {n \in i..k + 1 : In(n)}}
    BY DEF Span
  <1>2. i..k + 1 = (i..k) \cup {k + 1} /\ i + 1..k + 1 = (i + 1..k) \cup {k + 1}
        /\ k + 1 \notin i..k /\ (k + 1) - 1 = k
    OBVIOUS
  <1>3. In(k + 1) <=> history[k + 1].sub = history[i].sub /\ ~EndedBy(i, k)
    BY <1>2 DEF EndedBy
  <1>4. EndedBy(i, k + 1) <=>
           EndedBy(i, k) \/ (history[k + 1].sub = history[i].sub /\ Ends(k + 1))
    BY <1>2 DEF EndedBy
  <1> HIDE DEF In
  <1>5. ~In(k + 1) => Span(i, k + 1) = Span(i, k)
    BY <1>1, <1>2
  <1>6. In(k + 1) => Span(i, k + 1) = Span(i, k) \cup {history[k + 1].id}
    BY <1>1, <1>2
  <1> QED
    BY <1>3, <1>4, <1>5, <1>6

LEMMA SpanStarts ==
    ASSUME NEW i \in Nat
    PROVE  Span(i, i) = {history[i].id} /\ ~EndedBy(i, i)
  BY DEF Span, EndedBy

\* A true episode that has ended by k has all its executions by then.
LEMMA EndedSpan ==
    ASSUME IInv, NEW i \in Nat, NEW k \in Nat, k <= Len(history), EndedBy(i, k)
    PROVE  TrueFills(i) = Span(i, k)
  <1> DEFINE In(n) == /\ history[n].sub = history[i].sub
                      /\ \A m \in i + 1..n - 1 : history[m].sub = history[i].sub => ~Ends(m)
  <1>1. /\ TrueFills(i) = {history[j].id : j \in {n \in i..Len(history) : In(n)}}
        /\ Span(i, k) = {history[j].id : j \in {n \in i..k : In(n)}}
    BY DEF TrueFills, Span
  <1>2. Len(history) \in Nat
    BY DEF IInv, TypeOK
  <1>3. \A n \in i..Len(history) : In(n) => n <= k
    BY <1>2 DEF EndedBy
  <1> HIDE DEF In
  <1>4. {n \in i..Len(history) : In(n)} = {n \in i..k : In(n)}
    BY <1>2, <1>3
  <1> QED
    BY <1>1, <1>4

\* An episode that the next execution does not touch.
LEMMA UntouchedStaysTrue ==
    ASSUME NEW k \in Nat, NEW e, NEW s, EpisodeIsTrue(e, s, k),
           history[k + 1].sub # s \/ e.closedBy = "fill"
    PROVE  EpisodeIsTrue(e, s, k + 1)
  <1>1. PICK i \in 1..k : IsTrueOf(e, s, k, i)
    BY DEF EpisodeIsTrue
  <1>2. history[i].sub = s /\ (e.closedBy = "fill" => EndedBy(i, k))
    BY <1>1 DEF IsTrueOf
  <1>3. Span(i, k + 1) = Span(i, k)
    BY <1>2, SpanStep
  <1>4. EndedBy(i, k) => EndedBy(i, k + 1)
    BY SpanStep
  <1>5. e.closedBy = "nothing" => ~EndedBy(i, k + 1)
    BY <1>1, <1>2, SpanStep DEF IsTrueOf
  <1>6. IsTrueOf(e, s, k + 1, i)
    BY <1>1, <1>3, <1>4, <1>5 DEF IsTrueOf
  <1>7. i \in 1..k + 1
    OBVIOUS
  <1> QED
    BY <1>6, <1>7 DEF EpisodeIsTrue

\* An open episode that the next execution goes on or ends.
LEMMA ExtendedStaysTrue ==
    ASSUME NEW k \in Nat, NEW fill, fill = history[k + 1], NEW old, NEW s, fill.sub = s,
           EpisodeIsTrue(old, s, k), old.closedBy = "nothing",
           NEW e, Extends(e, old, fill),
           \/ e.closedBy = "nothing" /\ ~Ends(k + 1)
           \/ e.closedBy = "fill" /\ Ends(k + 1)
    PROVE  EpisodeIsTrue(e, s, k + 1)
  <1>1. PICK i \in 1..k : IsTrueOf(old, s, k, i)
    BY DEF EpisodeIsTrue
  <1>2. history[i].sub = s /\ ~EndedBy(i, k) /\ old.fills = Span(i, k)
    BY <1>1 DEF IsTrueOf
  <1>3. Span(i, k + 1) = Span(i, k) \cup {fill.id} /\ (EndedBy(i, k + 1) <=> Ends(k + 1))
    BY <1>2, SpanStep
  <1>4. IsTrueOf(e, s, k + 1, i)
    BY <1>1, <1>2, <1>3 DEF IsTrueOf, Extends
  <1>5. i \in 1..k + 1 /\ old.authority # "closed_by_fills"
    BY DEF EpisodeIsTrue
  <1> QED
    BY <1>4, <1>5 DEF EpisodeIsTrue, Extends

\* An episode that the next execution opens.
LEMMA OpenedIsTrue ==
    ASSUME NEW k \in Nat, NEW fill, fill = history[k + 1], NEW s, fill.sub = s,
           NEW e, OpenedBy(e, fill, HeldAfter(k + 1)), Opens(k + 1)
    PROVE  EpisodeIsTrue(e, s, k + 1)
  <1>1. Span(k + 1, k + 1) = {fill.id} /\ ~EndedBy(k + 1, k + 1)
    BY SpanStarts
  <1>2. IsTrueOf(e, s, k + 1, k + 1)
    BY <1>1 DEF OpenedBy, IsTrueOf
  <1>3. k + 1 \in 1..k + 1
    OBVIOUS
  <1> QED
    BY <1>2, <1>3 DEF OpenedBy, EpisodeIsTrue

\* What the next execution makes of a ledger is what it made of the account.
LEMMA AppliedIsTrue ==
    ASSUME NEW ledger, Sound(ledger), NEW k \in Nat, NEW fill \in Fill, fill = history[k + 1],
           NEW s, fill.sub = s, ledger.position = HeldBefore(k + 1),
           HeldAfter(k + 1) = HeldBefore(k + 1) + Signed(fill), pc = "fills",
           \A e \in Episodes(ledger) : EpisodeIsTrue(e, s, k),
           NEW l, l = Applied(ledger, fill)
    PROVE  /\ l.position = HeldAfter(k + 1)
           /\ \A e \in Episodes(l) : EpisodeIsTrue(e, s, k + 1)
  <1> DEFINE before == ledger.position
             after == HeldAfter(k + 1)
  <1>1. l.position = after /\ AppliedTo(l, ledger, fill, after)
    BY ApplyingIs
  <1>2. /\ ledger \in MarketLedger /\ before \in Int /\ after \in Int
        /\ before # 0 => ledger.current # NoEpisode /\ ledger.current.closedBy = "nothing"
    BY FillWorth DEF Sound, FlatToFlat, MarketLedger
  <1>3. \A e \in ledger.past : EpisodeIsTrue(e, s, k + 1)
    <2> TAKE e \in ledger.past
    <2>1. EpisodeIsTrue(e, s, k) /\ e.closedBy # "nothing" /\ e \in Episode
      BY <1>2 DEF Episodes, Sound, FlatToFlat, MarketLedger
    <2>2. e.closedBy = "fill"
      BY <2>1 DEF EpisodeIsTrue, Episode
    <2> QED
      BY <2>1, <2>2, UntouchedStaysTrue
  <1>4. before # 0 => EpisodeIsTrue(ledger.current, s, k)
    BY <1>2 DEF Episodes
  <1>5. /\ Opens(k + 1) <=> after # 0 /\ Sign(after) # Sign(before)
        /\ Ends(k + 1) <=> before # 0 /\ Sign(after) # Sign(before)
    BY DEF Opens, Ends
  <1>6. Sign(0) = 0 /\ (after # 0 => Sign(after) # 0) /\ (before # 0 => Sign(before) # 0)
    BY <1>2 DEF Sign
  <1>7. ASSUME l.past = ledger.past \/ (ClosesCurrent(l, ledger, fill) /\ before # 0 /\ Ends(k + 1))
        PROVE  \A e \in l.past : EpisodeIsTrue(e, s, k + 1)
    <2>1. CASE l.past = ledger.past
      BY <1>3, <2>1
    <2>2. CASE ClosesCurrent(l, ledger, fill) /\ before # 0 /\ Ends(k + 1)
      <3>1. PICK e : /\ l.past = ledger.past \cup {e}
                     /\ Extends(e, ledger.current, fill) /\ e.closedBy = "fill"
        BY <2>2 DEF ClosesCurrent
      <3>2. EpisodeIsTrue(e, s, k + 1)
        BY <1>2, <1>4, <2>2, <3>1, ExtendedStaysTrue
      <3> QED
        BY <1>3, <3>1, <3>2
    <2> QED
      BY <1>7, <2>1, <2>2
  <1>8. /\ l.past = ledger.past \/ (ClosesCurrent(l, ledger, fill) /\ before # 0 /\ Ends(k + 1))
        /\ l.current # NoEpisode => EpisodeIsTrue(l.current, s, k + 1)
    <2>1. CASE ledger.position = 0 /\ after # 0
      <3>1. l.past = ledger.past /\ OpenedBy(l.current, fill, after) /\ Opens(k + 1)
        BY <1>1, <1>5, <1>6, <2>1 DEF AppliedTo
      <3>2. EpisodeIsTrue(l.current, s, k + 1)
        BY <3>1, OpenedIsTrue
      <3> QED
        BY <3>1, <3>2
    <2>2. CASE ledger.position # 0 /\ after = 0
      BY <1>1, <1>5, <1>6, <2>2 DEF AppliedTo
    <2>3. CASE ledger.position # 0 /\ after # 0 /\ Sign(after) # Sign(ledger.position)
      <3>1. OpenedBy(l.current, fill, after) /\ ClosesCurrent(l, ledger, fill)
        BY <1>1, <2>3 DEF AppliedTo
      <3> QED
        BY <1>5, <2>3, <3>1, OpenedIsTrue
    <2>4. CASE ledger.position # 0 /\ after # 0 /\ Sign(after) = Sign(ledger.position)
      <3>1. /\ l.past = ledger.past /\ Extends(l.current, ledger.current, fill)
            /\ l.current.closedBy = ledger.current.closedBy /\ ~Ends(k + 1)
        BY <1>1, <1>5, <2>4 DEF AppliedTo
      <3>2. EpisodeIsTrue(l.current, s, k + 1)
        BY <1>2, <1>4, <2>4, <3>1, ExtendedStaysTrue
      <3> QED
        BY <3>1, <3>2
    <2> QED
      BY <1>1, <2>1, <2>2, <2>3, <2>4 DEF AppliedTo
  <1> QED
    BY <1>1, <1>7, <1>8 DEF Episodes

\* The next fill to replay is the next execution that was read.
LEMMA NextIsNext ==
    ASSUME IInv, HistoryInv, NEW m \in 0..Len(history), NEW k \in 0..m, LeftToReplay(k, m),
           NEW fill \in todo, \A other \in todo \ {fill} : Before(fill, other)
    PROVE  /\ k < m /\ fill = history[k + 1]
           /\ \A j \in DOMAIN history : (history[j] \in todo \ {fill}) <=> (k + 1 < j /\ j <= m)
  <1>1. /\ history \in Seq(Fill) /\ DOMAIN history = 1..Len(history) /\ Len(history) \in Nat
        /\ fill \in audit.fills
        /\ \A i, j \in DOMAIN history : history[i].id = history[j].id => i = j
    BY DEF IInv, TypeOK
  <1>2. PICK i \in DOMAIN history : history[i] = fill
    BY <1>1 DEF IInv
  <1>3. k < i /\ i <= m
    BY <1>2 DEF LeftToReplay
  <1>4. k + 1 \in DOMAIN history /\ history[k + 1] \in todo
    BY <1>1, <1>3 DEF LeftToReplay
  <1>5. ASSUME i # k + 1 PROVE FALSE
    <2>1. k + 1 < i
      BY <1>1, <1>2, <1>3, <1>5
    <2>2. Before(history[k + 1], fill)
      BY <1>2, <1>4, <2>1 DEF HistoryInv
    <2>3. history[k + 1] # fill
      BY <1>1, <1>2, <1>4, <1>5
    <2>4. Before(fill, history[k + 1])
      BY <1>4, <2>3
    <2>5. /\ history[k + 1].time \in Int /\ fill.time \in Int
          /\ history[k + 1].id \in Nat /\ fill.id \in Nat
      <3>1. history[k + 1] \in Fill /\ fill \in Fill
        BY <1>1, <1>2, <1>4
      <3>2. /\ history[k + 1].time \in Times /\ fill.time \in Times
            /\ history[k + 1].id \in FillIds /\ fill.id \in FillIds
        BY <3>1 DEF Fill
      <3>3. \A id \in FillIds : id \in Nat
        BY IdsArePositive
      <3>4. \A t \in Times : t \in Int
        BY DEF Times
      <3> QED
        BY <3>2, <3>3, <3>4
    <2> QED
      BY <2>2, <2>4, <2>5 DEF Before
  <1>6. \A j \in DOMAIN history : history[j] = fill <=> j = i
    BY <1>1, <1>2
  <1> QED
    BY <1>1, <1>2, <1>3, <1>5, <1>6 DEF LeftToReplay

\* When nothing is left to replay, everything read was replayed.
LEMMA NothingLeft ==
    ASSUME IInv, NEW m \in 0..Len(history), NEW k \in 0..m, LeftToReplay(k, m), todo = {}
    PROVE  k = m
  <1>1. DOMAIN history = 1..Len(history) /\ Len(history) \in Nat
    BY DEF IInv, TypeOK
  <1>2. ASSUME k # m PROVE FALSE
    <2>1. k + 1 \in DOMAIN history /\ k < k + 1 /\ k + 1 <= m
      BY <1>1, <1>2
    <2> QED
      BY <2>1 DEF LeftToReplay
  <1> QED
    BY <1>2

\* What only closes an episode or marks it leaves it true.
LEMMA MarkedStaysTrue ==
    ASSUME NEW old, NEW s, NEW k, EpisodeIsTrue(old, s, k), NEW e,
           e.opening = old.opening, e.sign = old.sign, e.fills = old.fills,
           e.closedBy = old.closedBy \/ e.closedBy = "settlement",
           e.authority = "closed_by_fills" => e.closedBy = "fill",
           pc' # "fills", UNCHANGED <<history, books>>
    PROVE  EpisodeIsTrue(e, s, k)'
  <1>1. PICK i \in 1..k : IsTrueOf(old, s, k, i)
    BY DEF EpisodeIsTrue
  <1>2. IsTrueOf(e, s, k, i)
    BY <1>1 DEF IsTrueOf
  <1>3. IsTrueOf(e, s, k, i)'
    BY <1>2 DEF IsTrueOf, Span, EndedBy, Opens, Ends, HeldBefore, HeldAfter
  <1> QED
    BY <1>3 DEF EpisodeIsTrue

\* The step that applies the settlement, on one ledger.
LEMMA SettlementKeepsTrue ==
    ASSUME NEW ledger, Sound(ledger), NEW s, NEW k, \A e \in Episodes(ledger) : EpisodeIsTrue(e, s, k),
           pc = "fills", pc' # "fills", UNCHANGED <<history, books>>,
           NEW row, NEW l,
           l = ledger \/ l = Unresolved(ledger) \/ (l = Settled(ledger, row) /\ ledger.position # 0)
    PROVE  \A e \in Episodes(l) : EpisodeIsTrue(e, s, k)'
  <1>1. /\ ledger \in MarketLedger
        /\ ledger.current # NoEpisode => ledger.current.closedBy = "nothing"
        /\ ledger.position # 0 => ledger.current # NoEpisode
    BY DEF Sound, FlatToFlat
  <1>2. \A e \in Episodes(ledger) : EpisodeIsTrue(e, s, k)'
    <2> TAKE e \in Episodes(ledger)
    <2>1. EpisodeIsTrue(e, s, k) /\ (e.authority = "closed_by_fills" => e.closedBy = "fill")
      BY DEF EpisodeIsTrue
    <2> QED
      BY <2>1, MarkedStaysTrue
  <1>3. CASE l = ledger
    BY <1>2, <1>3
  <1>4. CASE l = Unresolved(ledger)
    <2>1. /\ l.past = ledger.past
          /\ (l.current = NoEpisode) <=> (ledger.current = NoEpisode)
          /\ ledger.current # NoEpisode =>
                 /\ SameSpan(l.current, ledger.current)
                 /\ l.current.closedBy = ledger.current.closedBy
                 /\ l.current.authority = ledger.current.authority
      BY <1>1, <1>4, UnresolvedStays
    <2>2. ASSUME l.current # NoEpisode PROVE EpisodeIsTrue(l.current, s, k)'
      <3>1. EpisodeIsTrue(ledger.current, s, k)
        BY <2>1, <2>2 DEF Episodes
      <3>2. l.current.authority = "closed_by_fills" => l.current.closedBy = "fill"
        BY <2>1, <2>2, <3>1 DEF EpisodeIsTrue
      <3> QED
        BY <2>1, <2>2, <3>1, <3>2, MarkedStaysTrue DEF SameSpan
    <2> QED
      BY <1>2, <2>1, <2>2 DEF Episodes
  <1>5. CASE l = Settled(ledger, row) /\ ledger.position # 0
    <2>1. PICK e : /\ l.past = ledger.past \cup {e} /\ e.closedBy = "settlement"
                   /\ e.opening = ledger.current.opening /\ e.sign = ledger.current.sign
                   /\ e.fills = ledger.current.fills /\ e.authority = ledger.current.authority
      BY <1>1, <1>5, SettlingCloses
    <2>2. l.current = NoEpisode
      BY <1>1, <1>5, SettlingCloses
    <2>3. EpisodeIsTrue(ledger.current, s, k) /\ ledger.current.closedBy = "nothing"
      BY <1>1, <1>5 DEF Episodes
    <2>4. e.authority # "closed_by_fills"
      BY <2>1, <2>3 DEF EpisodeIsTrue
    <2>5. EpisodeIsTrue(e, s, k)'
      BY <2>1, <2>3, <2>4, MarkedStaysTrue
    <2> QED
      BY <1>2, <2>1, <2>2, <2>5 DEF Episodes
  <1> QED
    BY <1>3, <1>4, <1>5

\* The step that assigns the authorities, on one ledger.
LEMMA AuthorityKeepsTrue ==
    ASSUME NEW ledger, Sound(ledger), NEW s, NEW k, \A e \in Episodes(ledger) : EpisodeIsTrue(e, s, k),
           pc' # "fills", UNCHANGED <<history, books>>, NEW l, l = Authorised(ledger)
    PROVE  \A e \in Episodes(l) : EpisodeIsTrue(e, s, k)'
  <1>1. ledger \in MarketLedger
    BY DEF Sound
  <1>2. \A e \in l.past : EpisodeIsTrue(e, s, k)'
    <2> TAKE e \in l.past
    <2>1. PICK old \in ledger.past :
             /\ SameSpan(e, old) /\ e.closedBy = old.closedBy /\ e.authority = ClosedAuthority(old)
      BY <1>1, AuthorisingMarks
    <2>2. EpisodeIsTrue(old, s, k) /\ old \in Episode /\ old.closedBy # "nothing"
      BY <1>1 DEF Episodes, MarketLedger, Sound, FlatToFlat
    <2>3. e.authority = "closed_by_fills" => e.closedBy = "fill"
      BY <2>1, <2>2 DEF ClosedAuthority, Episode
    <2> QED
      BY <2>1, <2>2, <2>3, MarkedStaysTrue DEF SameSpan
  <1>3. ASSUME l.current # NoEpisode PROVE EpisodeIsTrue(l.current, s, k)'
    <2>1. /\ SameSpan(l.current, ledger.current) /\ ledger.current # NoEpisode
          /\ l.current.closedBy = ledger.current.closedBy
          /\ l.current.authority = OpenAuthority(ledger)
      BY <1>1, <1>3, AuthorisingMarks
    <2>2. l.current.authority # "closed_by_fills"
      <3>1. OpenAuthority(ledger) # "closed_by_fills"
        BY DEF OpenAuthority
      <3> QED
        BY <2>1, <3>1
    <2>3. EpisodeIsTrue(ledger.current, s, k)
      BY <2>1 DEF Episodes
    <2> QED
      BY <2>1, <2>2, <2>3, MarkedStaysTrue DEF SameSpan
  <1> QED
    BY <1>2, <1>3 DEF Episodes

\* An episode is true of what the exchange did, and of nothing else.
LEMMA UnmovedStaysTrue ==
    ASSUME NEW e, NEW s, NEW k, EpisodeIsTrue(e, s, k), UNCHANGED <<history, books, pc>>
    PROVE  EpisodeIsTrue(e, s, k)'
  BY DEF EpisodeIsTrue, IsTrueOf, Span, EndedBy, Opens, Ends, HeldBefore, HeldAfter

LEMMA ReplayKeepsClaims ==
    ASSUME IInv, HistoryInv, ViewInv, ClaimInv,
           \/ \E fill \in todo : ApplyFill(fill)
           \/ ApplySettlement \/ AssignAuthority \/ Restart
    PROVE  ClaimInv'
  <1>1. /\ UNCHANGED <<history, books, cutoff, settlement>> /\ pc' # "archive"
        /\ ledgers \in [Subaccounts -> MarketLedger] /\ \A s \in Subaccounts : Sound(ledgers[s])
        /\ history \in Seq(Fill) /\ Len(history) \in Nat /\ DOMAIN history = 1..Len(history)
        /\ audit.from \in Nat /\ todo \subseteq audit.fills
    <2>1. UNCHANGED <<history, books, cutoff, settlement>> /\ pc' # "archive"
      BY DEF ApplyFill, ApplySettlement, AssignAuthority, Restart, exchange
    <2>2. /\ ledgers \in [Subaccounts -> MarketLedger] /\ \A s \in Subaccounts : Sound(ledgers[s])
          /\ history \in Seq(Fill) /\ Len(history) \in Nat /\ DOMAIN history = 1..Len(history)
          /\ todo \subseteq audit.fills /\ audit \in Audit
      BY DEF IInv, TypeOK
    <2> QED
      BY <2>1, <2>2 DEF Audit
  <1>2. CASE Restart
    <2>1. ~audit'.complete
      BY <1>2 DEF Restart, NoAudit
    <2> QED
      BY <1>1, <2>1 DEF ClaimInv, WalkedInv
  <1>3. CASE ~Restart
    <2>1. audit' = audit /\ pc \notin Reads /\ pc' \notin Reads
      BY <1>3 DEF ApplyFill, ApplySettlement, AssignAuthority, Reads
    <2> SUFFICES ASSUME audit.complete PROVE Following'
      BY <1>1, <2>1 DEF ClaimInv, WalkedInv, ReadOnly
    <2>2. PICK m \in Nat : /\ m \in audit.from..Len(history) /\ ReadUpTo(m)
                           /\ \E k \in 0..m : ReplayedTo(k, m)
      BY <1>1, <2>1 DEF ClaimInv, Following
    <2>3. PICK k \in Nat : k <= m /\ ReplayedTo(k, m)
      BY <2>2
    <2>4. ReadUpTo(m)' /\ m \in audit'.from..Len(history') /\ m \in 0..Len(history) /\ k \in 0..m
      BY <1>1, <2>1, <2>2, <2>3 DEF ReadUpTo
    <2>5. ASSUME NEW n \in 0..m, ReplayedTo(n, m)' PROVE Following'
      BY <2>1, <2>4, <2>5 DEF Following
    <2>6. /\ LeftToReplay(k, m)
          /\ \A s \in Subaccounts : \A e \in Episodes(ledgers[s]) : EpisodeIsTrue(e, s, k)
          /\ pc = "fills" \/ audit.row = Unsettled =>
                \A s \in Subaccounts : ledgers[s].position = books[k + 1].held[s]
      BY <2>3 DEF ReplayedTo
    <2>7. CASE \E fill \in todo : ApplyFill(fill)
      <3>1. PICK fill \in todo : ApplyFill(fill)
        BY <2>7
      <3>2. /\ pc = "fills" /\ pc' = "fills" /\ todo' = todo \ {fill}
            /\ ledgers' = [ledgers EXCEPT ![fill.sub] = Applied(ledgers[fill.sub], fill)]
            /\ \A other \in todo \ {fill} : Before(fill, other)
        BY <3>1 DEF ApplyFill
      <3>3. /\ k < m /\ fill = history[k + 1]
            /\ \A j \in DOMAIN history : (history[j] \in todo \ {fill}) <=> (k + 1 < j /\ j <= m)
        BY <2>4, <2>6, <3>2, NextIsNext
      <3>4. k + 1 \in 0..m /\ k + 1 \in DOMAIN history /\ k \in Nat
        BY <1>1, <2>4, <3>3
      <3>5. fill \in Fill /\ fill.sub \in Subaccounts
        <4>1. fill \in Fill
          BY <1>1, <3>3, <3>4
        <4> QED
          BY <4>1 DEF Fill
      <3>6. LeftToReplay(k + 1, m)'
        BY <1>1, <3>2, <3>3 DEF LeftToReplay
      <3>7. ASSUME NEW s \in Subaccounts
            PROVE  /\ ledgers'[s].position = books[k + 1 + 1].held[s]
                   /\ \A e \in Episodes(ledgers'[s]) : EpisodeIsTrue(e, s, k + 1)
        <4>1. /\ books[k + 1 + 1].held[s] =
                    books[k + 1].held[s] + (IF fill.sub = s THEN Signed(fill) ELSE 0)
              /\ ledgers[s].position = books[k + 1].held[s]
          BY <2>6, <3>2, <3>3, <3>4 DEF ViewInv, BooksFollow
        <4>2. CASE s = fill.sub
          <5>1. ledgers'[s] = Applied(ledgers[s], fill)
            BY <1>1, <3>2, <4>2
          <5>2. HeldBefore(k + 1) = books[k + 1].held[s] /\ HeldAfter(k + 1) = books[k + 1 + 1].held[s]
            BY <3>3, <4>2 DEF HeldBefore, HeldAfter
          <5>3. /\ ledgers[s].position = HeldBefore(k + 1)
                /\ HeldAfter(k + 1) = HeldBefore(k + 1) + Signed(fill)
            BY <4>1, <4>2, <5>2
          <5>4. /\ ledgers'[s].position = HeldAfter(k + 1)
                /\ \A e \in Episodes(ledgers'[s]) : EpisodeIsTrue(e, s, k + 1)
            <6>1. /\ Sound(ledgers[s]) /\ pc = "fills" /\ fill = history[k + 1] /\ fill.sub = s
                  /\ \A e \in Episodes(ledgers[s]) : EpisodeIsTrue(e, s, k)
              BY <1>1, <2>6, <3>2, <3>3, <4>2
            <6> QED
              BY <3>4, <3>5, <5>1, <5>3, <6>1, AppliedIsTrue
          <5> QED
            BY <5>2, <5>4
        <4>3. CASE s # fill.sub
          <5>1. ledgers'[s] = ledgers[s]
            BY <1>1, <3>2, <4>3
          <5>2. \A e \in Episodes(ledgers[s]) : EpisodeIsTrue(e, s, k + 1)
            BY <2>6, <3>3, <3>4, <4>3, UntouchedStaysTrue
          <5>3. ledgers[s].position \in Int
            BY <1>1 DEF MarketLedger
          <5>4. ledgers'[s].position = books[k + 1 + 1].held[s]
            BY <4>1, <4>3, <5>1, <5>3
          <5> QED
            BY <5>1, <5>2, <5>4
        <4> QED
          BY <4>2, <4>3
      <3>8. \A s \in Subaccounts : \A e \in Episodes(ledgers'[s]) : EpisodeIsTrue(e, s, k + 1)'
        <4>1. UNCHANGED <<history, books, pc>>
          BY <1>1, <3>2
        <4> DEFINE n == k + 1
        <4>2. \A s \in Subaccounts : \A e \in Episodes(ledgers'[s]) : EpisodeIsTrue(e, s, n)
          BY <3>7
        <4> HIDE DEF n
        <4>3. \A s \in Subaccounts : \A e \in Episodes(ledgers'[s]) : EpisodeIsTrue(e, s, n)'
          BY <4>1, <4>2, UnmovedStaysTrue
        <4> QED
          BY <4>3 DEF n
      <3>9. ReplayedTo(k + 1, m)'
        BY <1>1, <3>6, <3>7, <3>8 DEF ReplayedTo, Episodes
      <3> QED
        BY <2>5, <3>4, <3>9
    <2>8. ASSUME pc' # "fills", todo' = todo,
                 \A s \in Subaccounts : \A e \in Episodes(ledgers'[s]) : EpisodeIsTrue(e, s, k)',
                 audit.row = Unsettled =>
                    \A s \in Subaccounts : ledgers'[s].position = books[k + 1].held[s]
          PROVE  Following'
      <3>1. LeftToReplay(k, m)'
        BY <1>1, <2>6, <2>8 DEF LeftToReplay
      <3>2. ReplayedTo(k, m)'
        BY <1>1, <2>1, <2>8, <3>1 DEF ReplayedTo, Episodes
      <3> QED
        BY <2>3, <2>5, <3>2
    <2>9. CASE ApplySettlement
      <3> DEFINE Step(s) == IF ~SettlementEvidence THEN ledgers[s]
                            ELSE IF HeldIn = {s} /\ ~Refuses(ledgers[s], audit.row)
                            THEN Settled(ledgers[s], audit.row) ELSE Unresolved(ledgers[s])
      <3>1. /\ pc = "fills" /\ pc' # "fills" /\ todo' = todo
            /\ ledgers' = [s \in Subaccounts |-> Step(s)]
        BY <2>9 DEF ApplySettlement
      <3>2. ASSUME NEW s \in Subaccounts
            PROVE  /\ \/ Step(s) = ledgers[s] \/ Step(s) = Unresolved(ledgers[s])
                      \/ (Step(s) = Settled(ledgers[s], audit.row) /\ ledgers[s].position # 0)
                   /\ audit.row = Unsettled => Step(s) = ledgers[s]
        BY DEF SettlementEvidence, Refuses
      <3> HIDE DEF Step
      <3>3. \A s \in Subaccounts : ledgers'[s] = Step(s)
        BY <3>1
      <3>4. \A s \in Subaccounts : \A e \in Episodes(ledgers'[s]) : EpisodeIsTrue(e, s, k)'
        <4> TAKE s \in Subaccounts
        <4>1. \A e \in Episodes(Step(s)) : EpisodeIsTrue(e, s, k)'
          BY <1>1, <2>6, <3>1, <3>2, SettlementKeepsTrue
        <4> QED
          BY <3>3, <4>1
      <3>5. audit.row = Unsettled =>
                 \A s \in Subaccounts : ledgers'[s].position = books[k + 1].held[s]
        BY <2>6, <3>2, <3>3
      <3> QED
        BY <2>8, <3>1, <3>4, <3>5
    <2>10. CASE AssignAuthority
      <3>1. /\ pc' # "fills" /\ todo' = todo
            /\ ledgers' = [s \in Subaccounts |-> Authorised(ledgers[s])]
        BY <2>10 DEF AssignAuthority, Authorised
      <3>2. \A s \in Subaccounts : ledgers'[s] = Authorised(ledgers[s])
        BY <3>1
      <3>3. \A s \in Subaccounts : \A e \in Episodes(ledgers'[s]) : EpisodeIsTrue(e, s, k)'
        <4> TAKE s \in Subaccounts
        <4> QED
          BY <1>1, <2>6, <3>1, <3>2, AuthorityKeepsTrue
      <3>4. \A s \in Subaccounts : ledgers'[s].position = ledgers[s].position
        BY <1>1, <3>2, AuthorisingMarks
      <3>5. audit.row = Unsettled =>
                 \A s \in Subaccounts : ledgers'[s].position = books[k + 1].held[s]
        BY <2>6, <3>4
      <3> QED
        BY <2>8, <3>1, <3>3, <3>5
    <2> QED
      BY <1>3, <2>7, <2>9, <2>10
  <1> QED
    BY <1>2, <1>3

LEMMA ClaimsInductive == ASSUME TiesFollowIds, ~MayReject PROVE Spec => []ClaimInv
  <1>1. Init => ClaimInv
    <2> SUFFICES ASSUME Init PROVE ClaimInv
      OBVIOUS
    <2>1. pc = "live" /\ ~audit.complete
      BY DEF Init, NoAudit
    <2> QED
      BY <2>1 DEF ClaimInv, WalkedInv
  <1>2. ASSUME IInv, HistoryInv, ViewInv, ClaimInv, UNCHANGED vars PROVE ClaimInv'
    <2>1. UNCHANGED <<history, books, cutoff, settlement, pc, audit, todo, ledgers>>
      BY <1>2 DEF vars
    <2>2. WalkedInv' /\ audit' = audit /\ (ReadOnly => ReadOnly')
      BY <1>2, <2>1 DEF ClaimInv, WalkedInv, ReadOnly, ReadUpTo
    <2>3. ASSUME NEW k, NEW m, ReplayedTo(k, m) PROVE ReplayedTo(k, m)'
      BY <2>1, <2>3, UnmovedStaysTrue DEF ReplayedTo, LeftToReplay, Episodes
    <2>4. Following => Following'
      BY <2>1, <2>3 DEF Following, ReadUpTo
    <2> QED
      BY <1>2, <2>2, <2>4 DEF ClaimInv
  <1>3. IInv /\ HistoryInv /\ ViewInv /\ ClaimInv /\ [Next]_vars => ClaimInv'
    BY <1>2, ExchangeKeepsClaims, ReadingKeepsClaims, ReplayKeepsClaims DEF Next
  <1> QED
    BY <1>1, <1>3, Inductive, HistoryIsOrdered, ViewsInductive, PTL DEF Spec

---------------------------------------------------------------------------

\* A claimed position state is one the account was in, although the fills, the
\* settlements and the positions are read one after the other while the
\* exchange executes and settles (audit.py: the reads; engine.py:
\* claims_complete_position_state): for every number of fills, of any size and
\* side and in any subaccount, when fills of one instant execute in the order
\* of their ids and every fill parses.
THEOREM ClaimedIsHeld ==
    ASSUME TiesFollowIds, ~MayReject PROVE Spec => []ClaimHeldAtSomeMoment
  <1>1. ASSUME IInv, ViewInv, ClaimInv PROVE ClaimHeldAtSomeMoment
    <2> SUFFICES ASSUME ClaimsCompletePositionState
                 PROVE  \/ settlement # Unsettled /\ \A s \in Subaccounts : ledgers[s].position = 0
                        \/ /\ ~audit.begun
                           /\ \E n \in audit.from..Len(history) :
                                 \A s \in Subaccounts : ledgers[s].position = books[n + 1].held[s]
      BY DEF ClaimHeldAtSomeMoment
    <2>1. /\ pc = "done" /\ audit.complete
          /\ \A s \in Subaccounts : ledgers[s].current # NoEpisode =>
                ledgers[s].current.authority \in EARNED_AUTHORITY
      BY DEF ClaimsCompletePositionState, Episodes
    <2>2. \A s \in Subaccounts : ledgers[s].current # NoEpisode =>
             /\ audit.row = Unsettled /\ audit.said = "quantity"
             /\ audit.quantity = ledgers[s].position
      BY <1>1, <2>1 DEF ViewInv, AuthorityIsEarned
    <2>3. \A s \in Subaccounts : (ledgers[s].position = 0) <=> (ledgers[s].current = NoEpisode)
      BY <1>1 DEF IInv, Sound, FlatToFlat
    <2>4. CASE audit.row # Unsettled \/ audit.begun
      <3>1. settlement # Unsettled /\ (audit.begun /\ audit.said = "quantity" => audit.quantity = 0)
        BY <1>1, <2>4 DEF ViewInv, ViewsAreTrue
      <3> QED
        BY <2>2, <2>3, <2>4, <3>1
    <2>5. CASE audit.row = Unsettled /\ ~audit.begun
      <3>1. PICK m \in audit.from..Len(history) : \E k \in 0..m : ReplayedTo(k, m)
        BY <1>1, <2>1 DEF ClaimInv, Following, Reads
      <3>2. PICK k \in 0..m : ReplayedTo(k, m)
        BY <3>1
      <3>3. m \in 0..Len(history) /\ todo = {}
        BY <1>1, <2>1 DEF IInv, TypeOK, Audit
      <3>4. k = m
        BY <1>1, <3>2, <3>3, NothingLeft DEF ReplayedTo
      <3>5. \A s \in Subaccounts : ledgers[s].position = books[m + 1].held[s]
        BY <2>5, <3>2, <3>4 DEF ReplayedTo
      <3> QED
        BY <2>5, <3>1, <3>5
    <2> QED
      BY <2>4, <2>5
  <1> QED
    BY <1>1, Inductive, ViewsInductive, ClaimsInductive, PTL

\* An importable episode is a real one (position.py: identity, apply_fill;
\* history.py: complete; engine.py: _assign_authority): whatever is read while
\* the exchange moves, its key is the execution that opened a true episode of
\* its subaccount on its side, its executions belong to that episode, and one
\* closed by fills has all of them.
THEOREM ImportedIsReal ==
    ASSUME TiesFollowIds, ~MayReject PROVE Spec => []ImportableIsReal
  <1>1. ASSUME IInv, ClaimInv PROVE ImportableIsReal
    <2> SUFFICES ASSUME NEW s \in Subaccounts, NEW e \in Episodes(ledgers[s]), Importable(e)
                 PROVE  \E i \in DOMAIN history :
                           /\ history[i].sub = s /\ history[i].id = e.opening
                           /\ Opens(i) /\ Sign(HeldAfter(i)) = e.sign
                           /\ e.fills \subseteq TrueFills(i)
                           /\ e.authority = "closed_by_fills" => e.fills = TrueFills(i)
      BY DEF ImportableIsReal
    <2>1. pc \notin Reads
      <3>1. pc \in Reads => ledgers[s] = Flat
        BY <1>1 DEF IInv
      <3>2. Episodes(Flat) = {}
        BY DEF Flat, Episodes
      <3> QED
        BY <3>1, <3>2
    <2>2. PICK m \in audit.from..Len(history) : \E k \in 0..m : ReplayedTo(k, m)
      BY <1>1, <2>1 DEF ClaimInv, Following, Importable
    <2>3. PICK k \in Nat : k <= Len(history) /\ ReplayedTo(k, m)
      <3>1. history \in Seq(Fill) /\ audit.from \in Nat
        BY <1>1 DEF IInv, TypeOK, Audit
      <3> QED
        BY <2>2, <3>1
    <2>4. EpisodeIsTrue(e, s, k)
      BY <2>3 DEF ReplayedTo
    <2>5. PICK i \in Nat : 1 <= i /\ i <= k /\ IsTrueOf(e, s, k, i)
      BY <2>4 DEF EpisodeIsTrue
    <2>6. k <= Len(history) /\ Len(history) \in Nat /\ i \in DOMAIN history
      <3>1. history \in Seq(Fill)
        BY <1>1 DEF IInv, TypeOK
      <3> QED
        BY <3>1, <2>3, <2>5
    <2>7. e.fills = Span(i, k) /\ Span(i, k) \subseteq TrueFills(i)
      BY <2>5, <2>6 DEF IsTrueOf, Span, TrueFills
    <2>8. ASSUME e.authority = "closed_by_fills" PROVE TrueFills(i) = Span(i, k)
      <3>1. EndedBy(i, k)
        BY <2>4, <2>5, <2>8 DEF EpisodeIsTrue, IsTrueOf
      <3> QED
        BY <1>1, <2>6, <3>1, EndedSpan
    <2> QED
      BY <2>5, <2>6, <2>7, <2>8 DEF IsTrueOf
  <1> QED
    BY <1>1, Inductive, ClaimsInductive, PTL

\* When every fill parses, an importable episode closed by fills was observed
\* in full (position.py: CLOSED_BY_FILLS; engine.py: fill_history_complete):
\* rejected rows are the only way to lose an execution of one.
THEOREM ParsedIsObserved ==
    ASSUME TiesFollowIds, ~MayReject PROVE Spec => []EveryFillWasObserved
  <1>1. ImportableIsReal => EveryFillWasObserved
    BY DEF ImportableIsReal, EveryFillWasObserved
  <1> QED
    BY <1>1, ImportedIsReal, PTL
=============================================================================
