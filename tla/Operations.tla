----------------------------- MODULE Operations -----------------------------
(***************************************************************************)
(* Who starts the delivery and settlement workflows, and who reports on    *)
(* them: scripts/router_conductor.py in the chained job of                 *)
(* router-conductor.yml, and scripts/publish_router_health.py on its cron. *)
(*                                                                         *)
(* The conductor lists a workflow's recent runs and, in a later step,      *)
(* dispatches one if none is active and the cadence has passed; between    *)
(* the two, the schedule or the owner may have started a run.  GitHub runs *)
(* one run of a workflow at a time and keeps one more pending; a newer one *)
(* cancels the pending one.                                                *)
(***************************************************************************)
EXTENDS Integers, Sequences, FiniteSets

CONSTANTS
    Cadence,     \* target of the conductor |-> least age of its last run
    StaleAfter,  \* age of the last delivery at which the health is stale
    Length,      \* ticks a conductor job loops
    Lead,        \* ticks before its end at which it dispatches its successor
    ListLimit    \* workflow |-> newest runs the lists return

Targets == DOMAIN Cadence
Workflows == {"deliver", "settle"}

VARIABLES
    runs,       \* workflow |-> its newest runs, newest first: how far, how old
    conductor,  \* the looping job: pc, ticks left, target found due, successor dispatched
    successor,  \* a conductor run is pending in the concurrency group
    health      \* overall_status of the router_health document

opsVars == <<runs, conductor, successor, health>>

ACTIVE == {"queued", "running"}

\* What a run ends as: "failure" also when it timed out or was cancelled, and
\* "blocked" when a green run's HEALTH token is blocked.
Results == {"success", "blocked", "failure"}

OldestAge == StaleAfter + 1

Off == [pc |-> "off", left |-> 0, due |-> "none", chained |-> FALSE]
Looping == [Off EXCEPT !.pc = "looping", !.left = Length]

Init ==
    /\ runs = [t \in Workflows |-> <<>>]
    /\ conductor = Off
    /\ successor = FALSE
    /\ health = "UNAVAILABLE"

-----------------------------------------------------------------------------
(* GitHub.                                                                 *)

Older(age) == IF age < OldestAge THEN age + 1 ELSE age

\* A conductor whose minutes are over ends before more time passes.
Tick ==
    /\ conductor.pc = "looping" => conductor.left > 0
    /\ runs' = [t \in Workflows |-> [i \in DOMAIN runs[t] |-> [runs[t][i] EXCEPT !.age = Older(@)]]]
    /\ conductor' = [conductor EXCEPT !.left = IF @ > 0 THEN @ - 1 ELSE 0]
    /\ UNCHANGED <<successor, health>>

\* A new run is queued; the one that was pending is cancelled.
Created(t) ==
    LET kept == [i \in DOMAIN runs[t] |->
                   IF runs[t][i].is = "queued" THEN [runs[t][i] EXCEPT !.is = "failure"] ELSE runs[t][i]]
        all == <<[is |-> "queued", age |-> 0]>> \o kept
    IN  SubSeq(all, 1, IF Len(all) <= ListLimit[t] THEN Len(all) ELSE ListLimit[t])

\* The declared schedule, when GitHub honours it, or the owner.
Schedule(t) ==
    /\ \A i \in DOMAIN runs[t] : runs[t][i].is # "queued"
    /\ runs' = [runs EXCEPT ![t] = Created(t)]
    /\ UNCHANGED <<conductor, successor, health>>

Begin(t) ==
    \E i \in DOMAIN runs[t] :
      /\ runs[t][i].is = "queued"
      /\ \A j \in DOMAIN runs[t] : runs[t][j].is # "running"
      /\ runs' = [runs EXCEPT ![t][i].is = "running"]
      /\ UNCHANGED <<conductor, successor, health>>

Finish(t) ==
    \E i \in DOMAIN runs[t], result \in Results :
      /\ runs[t][i].is = "running"
      /\ result = "blocked" => t = "deliver"
      /\ runs' = [runs EXCEPT ![t][i].is = result]
      /\ UNCHANGED <<conductor, successor, health>>

-----------------------------------------------------------------------------
(* The conductor.                                                          *)

\* Red waits for a person.
Decide_GreenOnly(list, cadence) ==
    /\ \A i \in DOMAIN list : list[i].is \notin ACTIVE
    /\ \A i \in DOMAIN list : list[i].age >= cadence
    /\ list # <<>> => Head(list).is = "success"

\* decide.  A run that was cancelled, blocked or failed is followed by the
\* next one at its cadence like one that succeeded.
Decide(list, cadence) ==
    /\ \A i \in DOMAIN list : list[i].is \notin ACTIVE
    /\ \A i \in DOMAIN list : list[i].age >= cadence

\* one_pass, first half: the list is read and the target found due.  A list
\* that cannot be read skips the target: no state changes.
FindDue(t) ==
    /\ conductor.pc = "looping" /\ conductor.due = "none"
    /\ Decide(runs[t], Cadence[t])
    /\ conductor' = [conductor EXCEPT !.due = t]
    /\ UNCHANGED <<runs, successor, health>>

\* Second half: `gh workflow run` is accepted ...
Dispatch(t) ==
    /\ conductor.due = t
    /\ runs' = [runs EXCEPT ![t] = Created(t)]
    /\ conductor' = [conductor EXCEPT !.due = "none"]
    /\ UNCHANGED <<successor, health>>

\* ... or refused, to be tried in another pass.
DispatchRefused ==
    /\ conductor.due # "none"
    /\ conductor' = [conductor EXCEPT !.due = "none"]
    /\ UNCHANGED <<runs, successor, health>>

\* should_chain: refused dispatches are retried while it still loops.  The off
\* switch, vars.ROUTER_CONDUCTOR, is never set.
Chain ==
    /\ conductor.pc = "looping" /\ conductor.due = "none"
    /\ ~conductor.chained /\ conductor.left <= Lead
    /\ conductor' = [conductor EXCEPT !.chained = TRUE]
    /\ successor' = TRUE
    /\ UNCHANGED <<runs, health>>

\* The minutes are over, or the job is killed; the pending successor starts.
EndOfJob ==
    /\ conductor.pc = "looping"
    /\ conductor' = IF successor THEN Looping ELSE Off
    /\ successor' = FALSE
    /\ UNCHANGED <<runs, health>>

\* The hourly cron restarts a lost chain; a surplus start becomes the group's
\* one pending run.
Cron ==
    /\ \/ conductor.pc = "off" /\ conductor' = Looping /\ UNCHANGED successor
       \/ conductor.pc = "looping" /\ successor' = TRUE /\ UNCHANGED conductor
    /\ UNCHANGED <<runs, health>>

-----------------------------------------------------------------------------
(* The health publisher.                                                   *)

Completed(list) == {i \in DOMAIN list : list[i].is \notin ACTIVE}

\* latest_completed.
LatestCompleted(list) ==
    IF Completed(list) = {} THEN [is |-> "none", age |-> 0]
    ELSE list[CHOOSE i \in Completed(list) : \A j \in Completed(list) : i <= j]

\* What parse_log can find in the log of such a run: its HEALTH token, and a
\* sport's FAIL verdict or ::error::.  An unreadable log is
\* empty.
Unreadable == [token |-> "unknown", failed |-> FALSE]

LogsOf(run) ==
    CASE run.is = "success" -> {[Unreadable EXCEPT !.token = "healthy"]}
      [] run.is = "blocked" -> {[Unreadable EXCEPT !.token = "blocked"]}
      [] run.is = "failure" ->
           [token : {"healthy", "unknown"}, failed : BOOLEAN]
      [] OTHER -> {Unreadable}

Red(run) == run.is \notin {"success", "blocked", "none"}

\* The overall status a settlement run leaves out of account.
Overall_DeliveryOnly(deliver, log, settle, settleLog) ==
    IF deliver.is = "none" THEN "UNAVAILABLE"
    ELSE IF deliver.age > StaleAfter THEN "STALE"
    ELSE IF Red(deliver) \/ log.token = "blocked" \/ log.failed \/ log.token = "unknown"
    THEN "DEGRADED" ELSE "HEALTHY"

\* build_documents.
Overall(deliver, log, settle, settleLog) ==
    IF deliver.is = "none" THEN "UNAVAILABLE"
    ELSE IF deliver.age > StaleAfter THEN "STALE"
    ELSE IF Red(deliver) \/ log.token = "blocked" \/ Red(settle) \/ settleLog.failed
            \/ log.failed \/ log.token = "unknown"
    THEN "DEGRADED" ELSE "HEALTHY"

PublishFrom(deliverLogs, settleLogs) ==
    LET deliver == LatestCompleted(runs["deliver"])
        settle == LatestCompleted(runs["settle"])
    IN  \E log \in deliverLogs, settleLog \in settleLogs :
          /\ health' = Overall(deliver, log, settle, settleLog)
          /\ UNCHANGED <<runs, conductor, successor>>

\* A run of the publisher that reads the logs it lists.
PublishFromLogs ==
    PublishFrom(LogsOf(LatestCompleted(runs["deliver"])), LogsOf(LatestCompleted(runs["settle"])))

\* A run of the publisher; one that cannot list the runs changes nothing.
Publish ==
    \E read \in SUBSET Workflows :
      PublishFrom(
        IF "deliver" \in read THEN LogsOf(LatestCompleted(runs["deliver"])) ELSE {Unreadable},
        IF "settle" \in read THEN LogsOf(LatestCompleted(runs["settle"])) ELSE {Unreadable})

Next ==
    \/ Tick
    \/ \E w \in Workflows : Schedule(w) \/ Begin(w) \/ Finish(w)
    \/ \E t \in Targets : FindDue(t) \/ Dispatch(t)
    \/ DispatchRefused \/ Chain \/ EndOfJob \/ Cron \/ Publish

-----------------------------------------------------------------------------
(* Properties.                                                             *)

\* Runs of a workflow never stop being started.
KeepsStarting(t) == []<>(runs[t] # <<>> /\ runs[t][1].age = 0)

\* The published document says HEALTHY while the last delivery or settlement
\* that completed failed, or a wager is blocked.
FailureHidden ==
    /\ health = "HEALTHY"
    /\ \E t \in Workflows : LatestCompleted(runs[t]).is \in {"failure", "blocked"}
=============================================================================
