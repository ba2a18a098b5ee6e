---------------------------- MODULE EntryCapture ----------------------------
(***************************************************************************)
(* The prospective entry-market collector: kalshi_router.entry_capture and *)
(* entry_capture_loop, run by scripts/entry_capture.py inside the links of *)
(* the workflow entry-capture.yml.                                         *)
(*                                                                         *)
(* A link restores the cumulative state from the data branch, then in      *)
(* every pass samples the book of each watched market and joins each new   *)
(* order to the last book observed before it was placed.  Beside it, the   *)
(* job's shell copies the two files the collector saves and pushes them.   *)
(* Restore, save, copy and push are separate steps, a job can be killed at *)
(* any of them, and only the branch outlives the job.                      *)
(***************************************************************************)
EXTENDS Naturals, Sequences, FiniteSets, SequencesExt, FiniteSetsExt, Functions

CONSTANTS
    Orders,        \* the account's orders
    TickerOf,      \* order |-> its market
    FillsOf,       \* order |-> kinds of its fills, in the order they appear
    Watched,       \* markets of the series the link watches
    LegacyOrders,  \* orders an older collector aggregated on the wrong axis
    ThinAt,        \* times at which the books have one side only
    OrderLimit,    \* newest executed orders read in a pass; fills: three times
    FreshSeconds,  \* age up to which a snapshot is the book at execution
    Horizon,       \* age at which the ring forgets
    MaxClock,      \* bound: ticks of the clock
    MaxKills       \* bound: jobs killed or whose restore fails

VARIABLES
    clock,
    placed,    \* order |-> the time it was created
    executed,  \* orders the executed-orders route lists, oldest first
    tape,      \* orders of the fills the fills route serves, oldest first
    link,      \* the collector's memory
    disk,      \* the two files it saves: state and public
    copy,      \* the shell's copy of the public file, while it publishes
    branch,    \* what the data branch holds
    kills

account == <<clock, placed, executed, tape>>
vars == <<account, link, disk, copy, branch, kills>>

-----------------------------------------------------------------------------
(* The aggregate state.                                                    *)

NoCounts == [o \in {} |-> o]

Blank == [version |-> "purchased_leg_v2", counted |-> NoCounts, historical |-> {}, ignored |-> {}]

Legacy == [version |-> "none",
           counted |-> [o \in LegacyOrders |-> [status |-> "unverified", book |-> 0]],
           historical |-> {}, ignored |-> {}]

\* Collector.__init__: a cohort aggregated on the old axis keeps only its
\* count; its orders are never counted again.
Reopened(state) ==
    IF state.version = Blank.version \/ state.counted = NoCounts
    THEN [state EXCEPT !.version = Blank.version]
    ELSE [state EXCEPT !.version = Blank.version, !.counted = NoCounts,
                       !.ignored = @ \cup DOMAIN state.counted]

Known(state) == DOMAIN state.counted \cup state.historical \cup state.ignored

NoFile == [absent |-> TRUE]

\* The ring of a market: observation time |-> book.  Two snapshots of one time
\* are joined as the later.
NoSnapshots == [t \in {} |-> t]

Off == [pc |-> "off", startedAt |-> 0, restored |-> TRUE, state |-> Blank,
        ring |-> [t \in Watched |-> NoSnapshots], response |-> <<>>, unsampled |-> {}, orders |-> <<>>, passAt |-> 0]

\* A pass begins.
Pass(l) == [l EXCEPT !.pc = "sample", !.unsampled = Watched, !.passAt = clock]

Init ==
    /\ clock = 1
    /\ placed = [o \in LegacyOrders |-> 0]
    /\ executed = SetToSeq(LegacyOrders)
    /\ tape = SetToSeq(LegacyOrders)
    /\ link = Off
    /\ disk = [state |-> NoFile, public |-> NoFile]
    /\ copy = NoFile
    /\ branch = IF LegacyOrders = {} THEN [state |-> NoFile, stats |-> NoFile]
                ELSE [state |-> Legacy, stats |-> Legacy]
    /\ kills = 0

-----------------------------------------------------------------------------
(* The account.                                                            *)

Tick == clock < MaxClock /\ clock' = clock + 1
        /\ UNCHANGED <<placed, executed, tape, link, disk, copy, branch, kills>>

Place(o) ==
    /\ o \notin DOMAIN placed
    /\ placed' = [x \in DOMAIN placed \cup {o} |-> IF x = o THEN clock ELSE placed[x]]
    /\ UNCHANGED <<clock, executed, tape, link, disk, copy, branch, kills>>

\* The order is listed as executed, and its fills appear, each in its time.
Execute(o) ==
    /\ o \in DOMAIN placed /\ o \notin Range(executed)
    /\ executed' = Append(executed, o)
    /\ UNCHANGED <<clock, placed, tape, link, disk, copy, branch, kills>>

FillsSeen(o, upto) == Cardinality({i \in 1..upto : tape[i] = o})

Appear(o) ==
    /\ o \in DOMAIN placed /\ FillsSeen(o, Len(tape)) < Len(FillsOf[o])
    /\ tape' = Append(tape, o)
    /\ UNCHANGED <<clock, placed, executed, link, disk, copy, branch, kills>>

-----------------------------------------------------------------------------
(* A link of the chain.                                                    *)

\* A branch that cannot be fetched reads "no prior state (first link)".
Start ==
    /\ link.pc = "off"
    /\ \/ /\ link' = Pass([Off EXCEPT !.startedAt = clock,
                         !.state = IF branch.state = NoFile THEN Blank ELSE Reopened(branch.state)])
          /\ UNCHANGED kills
       \/ /\ kills < MaxKills /\ kills' = kills + 1
          /\ link' = Pass([Off EXCEPT !.startedAt = clock, !.restored = FALSE])
    /\ UNCHANGED <<account, disk, copy, branch>>

\* The exchange answers GET /markets with the book of that moment ...
Respond(t) ==
    /\ link.pc = "sample" /\ t \in link.unsampled /\ link.response = <<>>
    /\ link' = [link EXCEPT !.response = <<[ticker |-> t, book |-> clock]>>]
    /\ UNCHANGED <<account, disk, copy, branch, kills>>

\* Ring.add: append, then forget what is older than the horizon.
RingAdd(ring, at, book) ==
    [t \in {s \in DOMAIN ring \cup {at} : at - s <= Horizon} |-> IF t = at THEN book ELSE ring[t]]

\* ... and sample_markets stamps it once the response is in.
ReceivedAt_Asked == link.passAt

ReceivedAt == clock

Stamp ==
    /\ link.response # <<>>
    /\ LET r == Head(link.response)
       IN  link' = [link EXCEPT !.response = <<>>, !.unsampled = @ \ {r.ticker},
                                !.ring = [@ EXCEPT ![r.ticker] = RingAdd(link.ring[r.ticker], ReceivedAt, r.book)]]
    /\ UNCHANGED <<account, disk, copy, branch, kills>>

\* A series that cannot be read is counted and passed over.
SeriesError(t) ==
    /\ link.pc = "sample" /\ t \in link.unsampled /\ link.response = <<>>
    /\ link' = [link EXCEPT !.unsampled = @ \ {t}]
    /\ UNCHANGED <<account, disk, copy, branch, kills>>

Newest(seq, n) == IF Len(seq) <= n THEN seq ELSE SubSeq(seq, Len(seq) - n + 1, Len(seq))

\* process_orders reads the orders first, the fills after them; order_errors
\* when either cannot be read.
ReadOrders ==
    /\ link.pc = "sample" /\ link.unsampled = {}
    /\ \/ link' = [link EXCEPT !.pc = "fills", !.orders = Newest(executed, OrderLimit)]
       \/ link' = [link EXCEPT !.pc = "passed"]
    /\ UNCHANGED <<account, disk, copy, branch, kills>>

\* Ring.latest_at_or_before: the last of these.
AtOrBefore(ring, placedAt) == {t \in DOMAIN ring : t <= placedAt}

JoinOrder(ring, placedAt) ==
    LET before == AtOrBefore(ring, placedAt)
        last == Max(before)
    IN  IF before = {}
        THEN [status |-> IF DOMAIN ring # {} THEN "SNAPSHOT_AFTER_ORDER" ELSE "NO_SNAPSHOT", book |-> 0]
        ELSE [status |-> IF ring[last] \in ThinAt THEN "SNAPSHOT_ONE_SIDED_OR_CROSSED"
                         ELSE IF placedAt <= last + FreshSeconds
                         THEN "ENTRY_FRESH" ELSE "STALE_NOT_ENTRY",
              book |-> ring[last]]

\* Kinds of the fills of o on the page, those that normalise.
FillsRead(o) ==
    LET page == {i \in 1..Len(tape) : i + 3 * OrderLimit > Len(tape) /\ tape[i] = o}
    IN  {FillsOf[o][FillsSeen(o, i)] : i \in page} \ {"malformed"}

\* What a pass makes of an order of the page: nothing while no fill of it is
\* visible or one has no price.
Fate(o) ==
    LET kinds == FillsRead(o)
    IN  IF o \in Known(link.state) \/ kinds = {} THEN "passed over"
        ELSE IF placed[o] < link.startedAt THEN "historical"
        ELSE IF "sell" \in kinds \/ Cardinality(kinds \cap {"buy", "otherSide"}) > 1 THEN "ignored"
        ELSE IF "unpriced" \in kinds THEN "passed over" ELSE "counted"

Fated(fate) == {o \in Range(link.orders) : Fate(o) = fate}

Joined(o) ==
    JoinOrder(IF TickerOf[o] \in Watched THEN link.ring[TickerOf[o]] ELSE NoSnapshots, placed[o])

\* An order's fate depends on no other order's.
Processed(state) ==
    [state EXCEPT !.historical = @ \cup Fated("historical"), !.ignored = @ \cup Fated("ignored"),
                  !.counted = [o \in DOMAIN @ \cup Fated("counted") |->
                                 IF o \in DOMAIN @ THEN @[o] ELSE Joined(o)]]

\* order_errors when the fills cannot be read.
ReadFills ==
    /\ link.pc = "fills"
    /\ \E state \in {link.state, Processed(link.state)} :
         link' = [link EXCEPT !.pc = "passed", !.orders = <<>>, !.state = state]
    /\ UNCHANGED <<account, disk, copy, branch, kills>>

\* After any pass the link saves (the code does after every sixth) or not; its
\* minutes may be over, which saves as well; an interval later it samples again.
NextPass ==
    /\ link.pc \in {"passed", "saved"} /\ link.passAt < clock
    /\ link' = Pass(link)
    /\ UNCHANGED <<account, disk, copy, branch, kills>>

\* The public file first.
FirstSaved_Public == "public"

\* The state file first, the public file after it, each atomically.
FirstSaved == "state"

SaveFirst ==
    /\ link.pc = "passed"
    /\ disk' = [disk EXCEPT ![FirstSaved] = link.state]
    /\ \E next \in {"saving", "ending"} : link' = [link EXCEPT !.pc = next]
    /\ UNCHANGED <<account, copy, branch, kills>>

SaveSecond ==
    /\ link.pc \in {"saving", "ending"}
    /\ disk' = [disk EXCEPT ![IF FirstSaved = "state" THEN "public" ELSE "state"] = link.state]
    /\ link' = [link EXCEPT !.pc = IF @ = "ending" THEN "done" ELSE "saved"]
    /\ UNCHANGED <<account, copy, branch, kills>>

-----------------------------------------------------------------------------
(* publish(), beside the collector and once more after it.                 *)

CopyPublic ==
    /\ link.pc # "off" /\ copy = NoFile /\ disk.public # NoFile
    /\ copy' = disk.public
    /\ UNCHANGED <<account, link, disk, branch, kills>>

\* The state file is copied last and both are force-pushed, or the push fails.
CopyStateAndPush ==
    /\ copy # NoFile
    /\ copy' = NoFile
    /\ \/ branch' = [state |-> disk.state, stats |-> copy]
       \/ UNCHANGED branch
    /\ UNCHANGED <<account, link, disk, kills>>

\* The job ends, after its last publish whether that worked or not; or it is
\* killed.  The runner's disk goes with it.
JobEnds ==
    /\ link.pc # "off"
    /\ \/ link.pc = "done" /\ copy = NoFile /\ UNCHANGED kills
       \/ kills < MaxKills /\ kills' = kills + 1
    /\ link' = Off /\ copy' = NoFile
    /\ disk' = [state |-> NoFile, public |-> NoFile]
    /\ UNCHANGED <<account, branch>>

Next ==
    \/ Tick
    \/ \E o \in Orders : Place(o) \/ Execute(o) \/ Appear(o)
    \/ Start
    \/ \E t \in Watched : Respond(t) \/ SeriesError(t)
    \/ Stamp \/ ReadOrders \/ ReadFills \/ NextPass
    \/ SaveFirst \/ SaveSecond
    \/ CopyPublic \/ CopyStateAndPush \/ JobEnds

Spec == Init /\ [][Next]_vars

-----------------------------------------------------------------------------
(* Properties.                                                             *)

\* An order counted with a fresh entry quote was joined to a book the exchange
\* showed before the order was placed, in whatever order samples, responses,
\* placements and fills came, and is not also counted as historical or
\* excluded, in memory, on disk or on the branch ("never used": the rule
\* entry_capture.py exists to enforce).
EntryQuotesAreHonest ==
    \A s \in {link.state, disk.state, branch.state} \ {NoFile} :
      /\ \A o \in DOMAIN s.counted : s.counted[o].status = "ENTRY_FRESH" =>
           s.counted[o].book <= placed[o]
      /\ DOMAIN s.counted \cap (s.historical \cup s.ignored) = {}
      /\ s.historical \cap s.ignored = {}

\* The published statistics lose no order and change none, across saves,
\* pushes, kills and restarts, except when a link that could not restore the
\* branch pushes over it, or the old axis is retired.
PublishedTotalsNeverDrop ==
    [][ (branch.stats # NoFile /\ branch.stats.version = Blank.version /\ link.restored) =>
          \A o \in DOMAIN branch.stats.counted :
            /\ o \in DOMAIN branch'.stats.counted
            /\ branch'.stats.counted[o] = branch.stats.counted[o] ]_branch
=============================================================================
