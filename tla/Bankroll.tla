------------------------------ MODULE Bankroll ------------------------------
(***************************************************************************)
(* The bankroll publisher: publish-bankroll.yml, balance, and              *)
(* scripts/publish_bankroll_secret.py.  A run reads the account's cash and *)
(* seals it into a secret of the destination, which sizes stakes by it     *)
(* while it is at most Window old and cannot be read back.                 *)
(*                                                                         *)
(* Time is in ticks of five minutes.  A new run cancels the one under way; *)
(* what the cancelled run sent may still arrive.                           *)
(***************************************************************************)
EXTENDS Integers

CONSTANTS
    JobTicks,  \* timeout-minutes
    Window,    \* DESTINATION_MAX_AGE_MINUTES
    Skew,      \* FUTURE_SKEW_TOLERANCE_MINUTES
    Attempts,  \* API_ATTEMPTS
    MaxTick    \* bound: how long the behaviour is

\* Two jobs, the skew and a tick fit into the age at which a balance is usable:
\* 10, 10, 5 and 5 of 30 minutes.
ASSUME JobsFitTheWindow ==
    {JobTicks, Skew, Window} \subseteq Nat /\ 2 * JobTicks + Skew + 1 <= Window

VARIABLES
    tick,
    token,   \* the destination accepts the credential
    job,     \* the latest run
    secret,  \* what the destination holds: when it was read and written
    puts     \* writes on their way

bankrollVars == <<tick, token, job, secret, puts>>

Absent == [observed |-> 0, updated |-> 0]
NoJob == [pc |-> "ended", code |-> 0, started |-> 0, observed |-> 0, since |-> 0, tries |-> 0,
          at |-> 0]
Running == job.pc # "ended"

Init ==
    /\ tick = 1 /\ token \in BOOLEAN
    /\ job = [NoJob EXCEPT !.code = 1]
    /\ secret = Absent
    /\ puts = {}

\* The exit codes; 1 stands for a run that was cancelled or timed out.
Ended(code) == [NoJob EXCEPT !.code = code, !.at = tick]
At(pc) == [job EXCEPT !.pc = pc, !.tries = 0]

-----------------------------------------------------------------------------
(* The world.                                                              *)

\* A write arrives within a tick or never; a job does not outlive its timeout.
Tick ==
    /\ tick < MaxTick
    /\ \A p \in puts : p.sent = tick
    /\ tick' = tick + 1
    /\ job' = IF Running /\ tick - job.started >= JobTicks THEN Ended(1) ELSE job
    /\ UNCHANGED <<token, secret, puts>>

\* The owner grants or withdraws the credential.
Rescope ==
    /\ token' = ~token
    /\ UNCHANGED <<tick, job, secret, puts>>

Land(p) ==
    /\ secret' = [observed |-> p.observed, updated |-> tick]
    /\ puts' = puts \ {p}
    /\ UNCHANGED <<tick, token, job>>

\* Accepted and never applied, or lost on its way.
Lose(p) ==
    /\ puts' = puts \ {p}
    /\ UNCHANGED <<tick, token, job, secret>>

-----------------------------------------------------------------------------
(* A run.                                                                  *)

\* The cron, late or dropped, or a dispatch.
Start ==
    /\ job' = [NoJob EXCEPT !.pc = "preflight", !.started = tick]
    /\ UNCHANGED <<tick, token, secret, puts>>

\* _with_retries: an answer below 500 is final, what fails is tried again.
Answers == IF token THEN {"ok", "failed"} ELSE {"denied", "failed"}
Again == job.tries + 1 < Attempts
After(answer, done) ==
    IF answer = "ok" THEN done
    ELSE IF answer = "denied" THEN Ended(3)
    ELSE IF Again THEN [job EXCEPT !.tries = @ + 1] ELSE Ended(4)

\* preflight: the public key is asked for before the account is read.
Preflight ==
    /\ job.pc = "preflight"
    /\ \E answer \in Answers : job' = After(answer, At("read"))
    /\ UNCHANGED <<tick, token, secret, puts>>

\* _run_bankroll: whole cents of available cash, observed as they are read, or
\* no context at all.
ReadBalance ==
    /\ job.pc = "read"
    /\ \E payload \in {"cents", "none", "noBalance", "notWhole", "negative"} :
         job' = IF payload = "cents" THEN [At("key") EXCEPT !.observed = tick] ELSE Ended(4)
    /\ UNCHANGED <<tick, token, secret, puts>>

\* _freshness_problems.
Fresh(observed) == tick - observed <= Window

\* main up to the write: validate_context, once, then the public key.
SealingKey ==
    /\ job.pc = "key"
    /\ \E answer \in Answers :
         job' = IF job.tries = 0 /\ ~Fresh(job.observed) THEN Ended(2)
                ELSE After(answer, [At("put") EXCEPT !.since = tick])
    /\ UNCHANGED <<tick, token, secret, puts>>

\* The write.  A request whose answer is lost may have been received; it is
\* sent again.
Put ==
    /\ job.pc = "put"
    /\ \E answer \in Answers :
         /\ job' = After(answer, At("verify"))
         /\ \/ token /\ puts' = puts \cup {[observed |-> job.observed, sent |-> tick]}
            \/ answer # "ok" /\ UNCHANGED puts
    /\ UNCHANGED <<tick, token, secret>>

\* verify_landed: the secret's own time, as far as clocks agree.  GitHub states
\* one of the form the code parses; without it the code would not compare.
Written_BySomeRun(since) == TRUE
Written(since) == secret.updated + Skew >= since

VerifyLanded ==
    /\ job.pc = "verify"
    /\ \E answer \in Answers :
         job' = IF answer = "denied" THEN Ended(5)
                ELSE After(answer, IF secret # Absent /\ Written(job.since) THEN Ended(0)
                                   ELSE Ended(5))
    /\ UNCHANGED <<tick, token, secret, puts>>

Next ==
    \/ Tick \/ Rescope \/ Start
    \/ \E p \in puts : Land(p) \/ Lose(p)
    \/ Preflight \/ ReadBalance \/ SealingKey \/ Put \/ VerifyLanded

-----------------------------------------------------------------------------
(* Properties.                                                             *)

\* When a run ends green the destination holds a reading it can still use,
\* whichever run wrote it and whatever became of this run's own write
\* (verify_landed, validate_context, the concurrency group).
GreenMeansUsable ==
    ~Running /\ job.code = 0 /\ job.at = tick
      => secret # Absent /\ tick - secret.observed <= Window
=============================================================================
