---------------------------- MODULE ServiceLoop -----------------------------
(***************************************************************************)
(* ContinuousPaperService.run (service.py) as a control loop: the operator *)
(* kill switch (killswitch.py), the error budget and the reconciliation    *)
(* block (health.py), the order of steps of PaperRuntime.run_once          *)
(* (runtime.py), and the meta-agent review that stands between the risk    *)
(* decision and execution (agents/review.py).                              *)
(*                                                                         *)
(* Every await is a step of its own, so that an operator engages or lifts  *)
(* a halt while the service waits.  The pipeline and the risk engine run   *)
(* without an await: they read the file and the signal as they are then,   *)
(* and the Redis key as the probe at the start of the cycle cached it.     *)
(*                                                                         *)
(* Abstractions.  What the pipeline proposes is chosen freely: nothing, an *)
(* entry or a protective exit.  Evidence packets are members of a small    *)
(* set.  The token budget of the reviewer, of the same shape as its call   *)
(* budget, and the confidence a review may adjust are left out.  What the  *)
(* submitter does with an order is the subject of Submission.              *)
(***************************************************************************)
EXTENDS Integers, FiniteSets

CONSTANTS
    Configs,      \* the settings a process may run with
    NumSymbols,   \* the number of symbols of a cycle
    MaxErrors,    \* max_consecutive_errors
    Evidence,     \* the digests of evidence packets
    MaxReviews    \* max_calls of the daily budget; 0 is unlimited

Config ==
    [mode : {"paper", "shadow"},             \* TRADING_MODE
     submit : BOOLEAN,                       \* --submit, with reconcilers wired
     paperFills : BOOLEAN,                   \* PAPER_SIMULATE_FILLS
     diagnostic : BOOLEAN,                   \* OPPORTUNITY_DIAGNOSTIC_MODE
     review : {"off", "advisory", "veto"},   \* META_AGENT_MODE
     redis : {"off", "wired", "missing"},    \* the Redis halt channel
     flag : BOOLEAN,                         \* KILL_SWITCH
     durable : BOOLEAN]                      \* durable_state_error is None

ASSUME ServiceAssumption ==
    /\ Configs \subseteq Config
    /\ NumSymbols \in Nat \ {0}
    /\ MaxErrors \in Nat \ {0}
    /\ MaxReviews \in Nat

VARIABLES
    config,        \* the settings
    pc,            \* the await the service stands at
    index,         \* the symbol of the current cycle
    errors,        \* health.consecutive_errors
    blocked,       \* health.reconciliation_blocked
    sentinel,      \* the sentinel file exists
    key,           \* the Redis key is truthy
    signalled,     \* the SIGUSR1 latch
    redisEngaged,  \* kill_switch.redis_engaged
    submitArg,     \* the submit argument of run_once
    proposal,      \* what the pipeline proposed
    intent,        \* paper_order
    evidence,      \* the evidence packet of the cycle
    cache,         \* the reviews EvidenceCache holds
    calls,         \* budget.calls
    \* history
    approvals,     \* the evidence the reviewer last approved
    decided,       \* what the risk decision allowed
    standing,      \* the halts engaged since before the cycle began
    sent,          \* what the cycle executed
    outcome        \* how the last symbol cycle ended

halts == <<sentinel, key, signalled>>
cycle == <<submitArg, proposal, intent, evidence, decided>>
reviewer == <<cache, calls, approvals>>
serviceVars ==
    <<config, pc, index, errors, blocked, sentinel, key, signalled, redisEngaged,
      submitArg, proposal, intent, evidence, cache, calls, approvals,
      decided, standing, sent, outcome>>

Proposal == {"none", "entry", "exit"}
Channel == {"settings", "file", "redis", "signal"}

(* A configured channel without a client is engaged from the start. *)
ServiceInit ==
    /\ config \in Configs
    /\ pc = IF config.durable THEN "boundary" ELSE "ended"
    /\ index = 1 /\ errors = 0
    /\ blocked = ~ config.durable
    /\ sentinel \in BOOLEAN /\ signalled = FALSE
    /\ key \in IF config.redis = "wired" THEN BOOLEAN ELSE {FALSE}
    /\ redisEngaged = (config.redis = "missing")
    /\ submitArg = FALSE /\ proposal = "none" /\ intent = "none"
    /\ evidence = CHOOSE e \in Evidence : TRUE
    /\ cache = [e \in Evidence |-> "none"] /\ calls = 0
    /\ approvals = {} /\ decided = "none" /\ standing = {} /\ sent = {} /\ outcome = "none"

-----------------------------------------------------------------------------
(***************************************************************************)
(* The kill switch.                                                        *)
(***************************************************************************)

(* engaged: any channel, the Redis one as last probed. *)
Engaged == config.flag \/ sentinel \/ redisEngaged \/ signalled

(* The halts in force outside the process, whatever it has noticed. *)
InForce ==
    {c \in Channel :
        \/ c = "settings" /\ config.flag
        \/ c = "file" /\ sentinel
        \/ c = "redis" /\ key /\ config.redis = "wired"
        \/ c = "signal" /\ signalled}

(* traderstack-kill and traderstack-resume, the remote key, SIGUSR1. *)
Kill ==
    /\ ~ sentinel
    /\ sentinel' = TRUE
    /\ UNCHANGED <<config, pc, index, errors, blocked, key, signalled, redisEngaged,
                   cycle, reviewer, standing, sent, outcome>>

Resume ==
    /\ sentinel
    /\ sentinel' = FALSE
    /\ standing' = standing \ {"file"}
    /\ UNCHANGED <<config, pc, index, errors, blocked, key, signalled, redisEngaged,
                   cycle, reviewer, sent, outcome>>

WriteKey ==
    /\ config.redis = "wired"
    /\ key' = ~ key
    /\ standing' = standing \ {"redis"}
    /\ UNCHANGED <<config, pc, index, errors, blocked, sentinel, signalled, redisEngaged,
                   cycle, reviewer, sent, outcome>>

HandleSigusr1 ==
    /\ ~ signalled
    /\ signalled' = TRUE
    /\ UNCHANGED <<config, pc, index, errors, blocked, sentinel, key, redisEngaged,
                   cycle, reviewer, standing, sent, outcome>>

(* Mutant: a probe that raises keeps the last answer. *)
ProbedLastAnswer ==
    IF config.redis = "wired" THEN {key, redisEngaged} ELSE {redisEngaged}

(* refresh: a probe that raises leaves the channel engaged. *)
Probed == IF config.redis = "wired" THEN {key, TRUE} ELSE {redisEngaged}

-----------------------------------------------------------------------------
(***************************************************************************)
(* The loop (_run_cycles) and its error budget.                            *)
(***************************************************************************)
Healthy == errors < MaxErrors

(* Mutant: the error budget starts afresh with every pass over the symbols. *)
BoundaryResetting ==
    /\ pc = "boundary"
    /\ pc' = "symbol"
    /\ index' = 1
    /\ errors' = 0
    /\ blocked' \in IF config.submit THEN BOOLEAN ELSE {blocked}
    /\ UNCHANGED <<config, halts, redisEngaged, cycle, reviewer, standing, sent, outcome>>

(* A pass is due or not; one that runs settles the block either way. *)
Boundary ==
    /\ pc = "boundary"
    /\ pc' = "symbol"
    /\ index' = 1
    /\ blocked' \in IF config.submit THEN BOOLEAN ELSE {blocked}
    /\ UNCHANGED <<config, errors, halts, redisEngaged, cycle, reviewer, standing,
                   sent, outcome>>

BeginSymbol ==
    /\ pc = "symbol"
    /\ pc' = "probe"
    /\ standing' = InForce
    /\ UNCHANGED <<config, index, errors, blocked, halts, redisEngaged, cycle, reviewer,
                   sent, outcome>>

(* Where the loop goes once a symbol is done. *)
AfterSymbol ==
    IF index < NumSymbols
    THEN pc' = "symbol" /\ index' = index + 1
    ELSE pc' = "sleep" /\ UNCHANGED index

EndCycle ==
    /\ submitArg' = FALSE /\ proposal' = "none" /\ intent' = "none" /\ decided' = "none"
    /\ standing' = {} /\ sent' = {}

(* record_error *)
CycleFails ==
    /\ errors' = errors + 1
    /\ outcome' = "failed"
    /\ pc' = "backoff"
    /\ EndCycle
    /\ UNCHANGED <<config, index, blocked, halts, redisEngaged, evidence>>

(* The backoff is over: an exhausted budget stops the loop. *)
Backoff ==
    /\ pc = "backoff"
    /\ \/ Healthy /\ AfterSymbol
       \/ ~ Healthy /\ pc' = "exit" /\ UNCHANGED index
    /\ UNCHANGED <<config, errors, blocked, halts, redisEngaged, cycle, reviewer,
                   standing, sent, outcome>>

Sleep ==
    /\ pc = "sleep"
    /\ pc' = "boundary"
    /\ UNCHANGED <<config, index, errors, blocked, halts, redisEngaged, cycle, reviewer,
                   standing, sent, outcome>>

(* The finally of run: the collectors are cancelled, the head is anchored. *)
Exit ==
    /\ pc = "exit"
    /\ pc' = "ended"
    /\ UNCHANGED <<config, index, errors, blocked, halts, redisEngaged, cycle, reviewer,
                   standing, sent, outcome>>

-----------------------------------------------------------------------------
(***************************************************************************)
(* A symbol cycle up to the risk decision.                                 *)
(***************************************************************************)
SubmissionEnabled == config.submit /\ ~ blocked /\ ~ config.diagnostic

PaperFillEnabled == config.paperFills /\ ~ blocked /\ ~ config.diagnostic

(* _refresh_kill_switch, then the arguments of run_once. *)
Probe ==
    /\ pc = "probe"
    /\ pc' = "gather"
    /\ redisEngaged' \in Probed
    /\ submitArg' = SubmissionEnabled
    /\ UNCHANGED <<config, index, errors, blocked, halts, proposal, intent, evidence,
                   decided, reviewer, standing, sent, outcome>>

(* No tick, a tick of another symbol, the feed exhausted. *)
GatherFails ==
    /\ pc = "gather"
    /\ CycleFails
    /\ UNCHANGED reviewer

(* _halted is the first check of evaluate and no proposal passes it. *)
Allowed(p) == IF Engaged THEN {"none"} ELSE {p, "none"}

(* The market data is in: pipeline.process. *)
Decide ==
    /\ pc = "gather"
    /\ pc' = "review"
    /\ proposal' \in Proposal
    /\ intent' \in Allowed(proposal')
    /\ decided' = intent'
    /\ evidence' \in IF config.review = "off" THEN {evidence} ELSE Evidence
    /\ UNCHANGED <<config, index, errors, blocked, halts, redisEngaged, submitArg,
                   reviewer, standing, sent, outcome>>

-----------------------------------------------------------------------------
(***************************************************************************)
(* MetaAgentReviewer.                                                      *)
(***************************************************************************)

(* Mutant: protective exits are reviewed as entries are. *)
NotReviewedProposal == config.review = "off" \/ proposal = "none"

(* review returns without a verdict: off, an exit, or nothing proposed. *)
NotReviewed == config.review = "off" \/ proposal # "entry"

BudgetExhausted == MaxReviews # 0 /\ calls >= MaxReviews

(* Mutant: only an explicit veto withholds the order. *)
AfterReviewFailOpen(verdict) ==
    IF config.review = "veto" /\ verdict = "veto" THEN "none" ELSE intent

(* apply: in veto mode an order passes only with an approval. *)
AfterReview(verdict) ==
    IF config.review = "veto" /\ verdict # "approve" THEN "none" ELSE intent

Reviewed(verdict) ==
    /\ intent' = AfterReview(verdict)
    /\ pc' = "deliver"
    /\ UNCHANGED <<config, index, errors, blocked, halts, redisEngaged, submitArg,
                   proposal, evidence, decided, standing, sent, outcome>>

SkipReview ==
    /\ pc = "review"
    /\ NotReviewed
    /\ pc' = "deliver"
    /\ UNCHANGED <<config, index, errors, blocked, halts, redisEngaged, cycle, reviewer,
                   standing, sent, outcome>>

CachedReview ==
    /\ pc = "review"
    /\ ~ NotReviewed
    /\ cache[evidence] # "none"
    /\ Reviewed(cache[evidence])
    /\ UNCHANGED reviewer

ReviewOverBudget ==
    /\ pc = "review"
    /\ ~ NotReviewed
    /\ cache[evidence] = "none"
    /\ BudgetExhausted
    /\ Reviewed("unusable")
    /\ UNCHANGED reviewer

AskReviewer ==
    /\ pc = "review"
    /\ ~ NotReviewed
    /\ cache[evidence] = "none"
    /\ ~ BudgetExhausted
    /\ pc' = "asked"
    /\ UNCHANGED <<config, index, errors, blocked, halts, redisEngaged, cycle, cache,
                   calls, approvals, standing, sent, outcome>>

(* The call is counted when it ends, whichever way. *)
ReviewerAnswers ==
    /\ pc = "asked"
    /\ \E verdict \in {"approve", "veto"} :
          /\ Reviewed(verdict)
          /\ cache' = [cache EXCEPT ![evidence] = verdict]
          /\ approvals' = IF verdict = "approve" THEN approvals \cup {evidence}
                          ELSE approvals \ {evidence}
    /\ calls' = calls + 1

ReviewerFails ==
    /\ pc = "asked"
    /\ Reviewed("unusable")
    /\ calls' = calls + 1
    /\ UNCHANGED <<cache, approvals>>

(* An entry of the cache outlives its time to live. *)
CacheExpires ==
    /\ \E e \in Evidence :
          /\ cache[e] # "none"
          /\ cache' = [cache EXCEPT ![e] = "none"]
    /\ UNCHANGED <<config, pc, index, errors, blocked, halts, redisEngaged, cycle, calls,
                   approvals, standing, sent, outcome>>

(* A new UTC day.  A call in progress is counted on the day it ends. *)
NewDay ==
    /\ calls' = 0
    /\ UNCHANGED <<config, pc, index, errors, blocked, halts, redisEngaged, cycle, cache,
                   approvals, standing, sent, outcome>>

-----------------------------------------------------------------------------
(***************************************************************************)
(* Execution and the end of the cycle.                                     *)
(***************************************************************************)

(* The shadow recorder, or the submitter; either may raise.  A request may *)
(* have left even then.                                                    *)
Deliver ==
    /\ pc = "deliver"
    /\ intent # "none"
    /\ config.mode = "shadow" \/ submitArg
    /\ \/ /\ sent' \in IF config.mode = "shadow" THEN {{"shadow"}} ELSE {{}, {"order"}}
          /\ pc' = "fill"
          /\ UNCHANGED <<config, index, errors, blocked, halts, redisEngaged, cycle,
                         standing, outcome>>
       \/ CycleFails
    /\ UNCHANGED reviewer

NothingToDeliver ==
    /\ pc = "deliver"
    /\ intent = "none" \/ (config.mode = "paper" /\ ~ submitArg)
    /\ pc' = "fill"
    /\ UNCHANGED <<config, index, errors, blocked, halts, redisEngaged, cycle, reviewer,
                   standing, sent, outcome>>

(* _maybe_apply_paper_fill asks the kill switch again. *)
FillWithheld ==
    \/ intent = "none" \/ config.mode # "paper"
    \/ Engaged \/ ~ PaperFillEnabled

SkipFill ==
    /\ pc = "fill"
    /\ FillWithheld
    /\ pc' = "wrapup"
    /\ UNCHANGED <<config, index, errors, blocked, halts, redisEngaged, cycle, reviewer,
                   standing, sent, outcome>>

PaperFill ==
    /\ pc = "fill"
    /\ ~ FillWithheld
    /\ \/ /\ sent' = sent \cup {"fill"}
          /\ pc' = "wrapup"
          /\ UNCHANGED <<config, index, errors, blocked, halts, redisEngaged, cycle,
                         standing, outcome>>
       \/ CycleFails    \* the ledger save raises
    /\ UNCHANGED reviewer

(* Mark, audit, funnel, checkpoint, event sinks, record_success. *)
CycleSucceeds ==
    /\ pc = "wrapup"
    /\ errors' = 0
    /\ outcome' = "ok"
    /\ AfterSymbol
    /\ EndCycle
    /\ UNCHANGED <<config, blocked, halts, redisEngaged, evidence, reviewer>>

(* The audit append, the checkpoint or an event sink raises. *)
WrapupFails ==
    /\ pc = "wrapup"
    /\ CycleFails
    /\ UNCHANGED reviewer

-----------------------------------------------------------------------------
OperatorNext == Kill \/ Resume \/ WriteKey \/ HandleSigusr1

ReviewNext ==
    SkipReview \/ CachedReview \/ ReviewOverBudget \/ AskReviewer \/ ReviewerAnswers
    \/ ReviewerFails

(* The steps whose wait has a timeout, or that wait for nothing. *)
BoundedNext ==
    Boundary \/ BeginSymbol \/ Backoff \/ Sleep \/ Exit \/ ReviewNext \/ Deliver
    \/ NothingToDeliver \/ SkipFill \/ PaperFill

(* The probe, the tick and the event sinks have none. *)
UnboundedNext == Probe \/ GatherFails \/ Decide \/ CycleSucceeds \/ WrapupFails

Ended == pc = "ended" /\ UNCHANGED serviceVars

ServiceNext ==
    OperatorNext \/ BoundedNext \/ UnboundedNext \/ CacheExpires \/ NewDay \/ Ended

ServiceSpec == ServiceInit /\ [][ServiceNext]_serviceVars

FairServiceSpec == ServiceSpec /\ WF_serviceVars(BoundedNext)

-----------------------------------------------------------------------------
(***************************************************************************)
(* Properties.                                                             *)
(***************************************************************************)

(* A halt engaged on any channel before a symbol cycle begins, and not     *)
(* lifted since, lets that cycle send no order, book no paper fill and     *)
(* record no shadow intent: the probe, the risk decision and the paper     *)
(* fill between them miss no channel (killswitch.refresh, service.py).     *)
HaltHonoured == standing # {} => sent = {}

(* In veto mode no entry is executed on evidence the reviewer has not      *)
(* approved in its latest answer: timeouts, errors, an exhausted budget    *)
(* and a cached answer never stand for an approval (agents/review.py).     *)
VetoFailsClosed ==
    (config.review = "veto" /\ proposal = "entry" /\ sent # {}) => evidence \in approvals

(* A protective exit the risk engine allowed is still to be executed after *)
(* the review, whatever the mode, the budget and the cache of the reviewer *)
(* (the exit branches of review and apply).                                *)
ExitNeverVetoed ==
    (decided = "exit" /\ pc \in {"deliver", "fill", "wrapup"}) => intent = "exit"

(* The review withholds every entry it has not approved, and no exit. *)
ReviewHonoured == VetoFailsClosed /\ ExitNeverVetoed

(* A service whose cycles all fail from some time on stops, unless it      *)
(* waits for ever on something it sets no timeout for: the error budget    *)
(* runs over the symbols and over the passes (health.py, _run_cycles).     *)
PersistentFailureEnds ==
    (/\ []<>(pc \notin {"probe", "gather", "wrapup"})
     /\ <>[](outcome = "failed"))
    => <>(pc = "ended")
=============================================================================
