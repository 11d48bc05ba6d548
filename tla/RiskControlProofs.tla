------------------------- MODULE RiskControlProofs --------------------------
(***************************************************************************)
(* Proofs about the risk controls: the halts and the review of             *)
(* ServiceLoop, the breaker of StrategyBreaker and the decision trail of   *)
(* AuditTrail.  The three share no state: a theorem is about ServiceSpec,  *)
(* BreakerSpec or TrailSpec.                                               *)
(*                                                                         *)
(* For every set of settings, number of symbols, error budget, set of      *)
(* evidence packets and review budget: a halt that stands since before a   *)
(* symbol cycle began is honoured, and the review fails closed on entries  *)
(* and leaves exits alone.  For every policy, cool-down and lag: a         *)
(* checkpointed suspension lasts its cool-down, and the breaker trips      *)
(* exactly when the outcomes breach the policy.  For any sinks, interval   *)
(* and bounds: the trail chains, forks only by its own doing, never locks  *)
(* the service out, and its unanchored tail stays bounded.                 *)
(***************************************************************************)
EXTENDS ServiceLoop, StrategyBreaker, AuditTrail, WellFoundedInduction, TLAPS

-----------------------------------------------------------------------------
(***************************************************************************)
(* The service loop.                                                       *)
(***************************************************************************)
(* Where the loop stands between two symbol cycles. *)
Between == {"boundary", "symbol", "backoff", "sleep", "exit", "ended"}

(* Where a cycle stands before it may execute, and from then on. *)
Unreviewed == {"review", "asked"}
Executing == {"deliver", "fill", "wrapup"}
Awaits == Between \cup {"probe", "gather"} \cup Unreviewed \cup Executing

(* Only the types the argument needs; counters play no part in it. *)
ServiceTypes ==
    /\ config \in Config
    /\ pc \in Awaits
    /\ sentinel \in BOOLEAN /\ key \in BOOLEAN /\ signalled \in BOOLEAN
    /\ redisEngaged \in BOOLEAN
    /\ proposal \in Proposal
    /\ cache \in [Evidence -> {"none", "approve", "veto"}]

(* A cycle leaves nothing behind, and nothing is sent before its delivery. *)
CleanSlate ==
    /\ pc \in Between => standing = {} /\ proposal = "none" /\ intent = "none"
                         /\ decided = "none"
    /\ pc \notin Executing => sent = {}
    /\ pc \in {"probe", "gather"} => intent = "none" /\ decided = "none"

(* A standing halt is still in force: lifting one takes it off the record. *)
StandingInForce == standing \subseteq InForce

(* The probe has noticed a standing key, and keeps it until the next one. *)
KeyNoticed ==
    pc \notin Between \cup {"probe"} /\ "redis" \in standing => redisEngaged

(* From the risk decision on, a standing halt leaves the cycle no intent,  *)
(* and only an intent is ever executed.                                    *)
NoIntentUnderHalt == pc \in Unreviewed \cup Executing /\ standing # {} => intent = "none"
OnlyIntentSent == sent # {} => intent # "none"

(* The intent is the proposal or nothing, and an exit keeps its intent. *)
IntentIsProposal == intent \in {"none", proposal}
ExitKept == decided = "exit" => proposal = "exit" /\ intent = "exit"

(* What the reviewer's cache holds is its latest answer. *)
CacheIsLatest == \A e \in Evidence : cache[e] = "approve" => e \in approvals

(* The reviewer is asked about entries; an entry that passed it in veto    *)
(* mode was approved.                                                      *)
EntriesReviewed ==
    /\ pc \in Unreviewed \cup Executing /\ config.review # "off" => evidence \in Evidence
    /\ pc = "asked" => proposal = "entry"
    /\ pc \in Executing /\ config.review = "veto" /\ proposal = "entry" /\ intent # "none"
       => evidence \in approvals

HaltInv == CleanSlate /\ StandingInForce /\ KeyNoticed /\ NoIntentUnderHalt /\ OnlyIntentSent
ReviewInv == IntentIsProposal /\ ExitKept /\ CacheIsLatest /\ EntriesReviewed
ServiceInv == ServiceTypes /\ HaltInv /\ ReviewInv

-----------------------------------------------------------------------------
(* What each channel contributes to the halts in force. *)
LEMMA InForceChannels ==
    /\ InForce \subseteq Channel
    /\ "settings" \in InForce <=> config.flag
    /\ "file" \in InForce <=> sentinel
    /\ "redis" \in InForce <=> (key /\ config.redis = "wired")
    /\ "signal" \in InForce <=> signalled
BY DEF InForce, Channel

(* The same after a step. *)
LEMMA InForceChannelsNext ==
    /\ InForce' \subseteq Channel
    /\ "settings" \in InForce' <=> config'.flag
    /\ "file" \in InForce' <=> sentinel'
    /\ "redis" \in InForce' <=> (key' /\ config'.redis = "wired")
    /\ "signal" \in InForce' <=> signalled'
BY DEF InForce, Channel

(* A standing halt that the probe has seen engages the switch. *)
LEMMA StandingEngages ==
    ASSUME StandingInForce, KeyNoticed, pc = "gather", standing # {}
    PROVE  Engaged
<1>1. PICK c \in Channel : c \in standing
  BY InForceChannels DEF StandingInForce
<1>2. CASE c = "redis"
  BY <1>1, <1>2 DEF KeyNoticed, Between, Engaged
<1>3. CASE c \in {"settings", "file", "signal"}
  BY <1>1, <1>3, InForceChannels DEF StandingInForce, Engaged
<1> QED
  BY <1>2, <1>3 DEF Channel

LEMMA ServiceInitially == ServiceInit => ServiceInv
<1> SUFFICES ASSUME ServiceInit PROVE ServiceInv
  OBVIOUS
<1>1. config \in Config
  BY ServiceAssumption DEF ServiceInit
<1>2. sentinel \in BOOLEAN /\ key \in BOOLEAN /\ signalled \in BOOLEAN
      /\ redisEngaged \in BOOLEAN
  BY DEF ServiceInit
<1>3. pc \in Between
  BY DEF ServiceInit, Between
<1>4. ServiceTypes
  BY <1>1, <1>2, <1>3 DEF ServiceInit, ServiceTypes, Awaits, Proposal
<1>5. HaltInv
  BY <1>3 DEF ServiceInit, HaltInv, CleanSlate, StandingInForce, KeyNoticed,
     NoIntentUnderHalt, OnlyIntentSent, Between, Unreviewed, Executing
<1>6. ReviewInv
  BY <1>3 DEF ServiceInit, ReviewInv, IntentIsProposal, ExitKept, CacheIsLatest,
     EntriesReviewed, Between, Unreviewed, Executing
<1> QED
  BY <1>4, <1>5, <1>6 DEF ServiceInv

(* An operator engages or lifts a halt: only what is in force changes, and *)
(* a halt that is lifted stands no longer.                                 *)
LEMMA OperatorStep == ServiceInv /\ OperatorNext => ServiceInv'
<1> SUFFICES ASSUME ServiceInv, OperatorNext PROVE ServiceInv'
  OBVIOUS
<1> USE DEF cycle, reviewer, Kill, Resume, WriteKey, HandleSigusr1
<1>1. UNCHANGED <<config, pc, redisEngaged, proposal, intent, evidence, cache, approvals,
                  decided, sent>>
  BY DEF OperatorNext
<1>2. standing' \subseteq standing
  BY DEF OperatorNext
<1>3. sentinel' \in BOOLEAN /\ key' \in BOOLEAN /\ signalled' \in BOOLEAN
  BY DEF OperatorNext, ServiceInv, ServiceTypes
<1>4. ServiceTypes'
  BY <1>1, <1>3 DEF ServiceInv, ServiceTypes
<1>5. StandingInForce'
  <2>1. standing \subseteq InForce
    BY DEF ServiceInv, HaltInv, StandingInForce
  <2>2. standing' \subseteq InForce'
    <3> SUFFICES ASSUME NEW c \in standing' PROVE c \in InForce'
      OBVIOUS
    <3>1. c \in standing /\ c \in InForce /\ c \in Channel
      BY <1>2, <2>1, InForceChannels
    <3>2. CASE Kill
      BY <3>1, <3>2, InForceChannels, InForceChannelsNext DEF Channel
    <3>3. CASE Resume
      BY <3>1, <3>3, InForceChannels, InForceChannelsNext DEF Channel
    <3>4. CASE WriteKey
      BY <3>1, <3>4, InForceChannels, InForceChannelsNext DEF Channel
    <3>5. CASE HandleSigusr1
      BY <3>1, <3>5, InForceChannels, InForceChannelsNext DEF Channel
    <3> QED
      BY <3>2, <3>3, <3>4, <3>5 DEF OperatorNext
  <2> QED
    BY <2>2 DEF StandingInForce
<1>6. HaltInv'
  BY <1>1, <1>2, <1>5 DEF ServiceInv, HaltInv, CleanSlate, KeyNoticed, NoIntentUnderHalt,
     OnlyIntentSent
<1>7. ReviewInv'
  BY <1>1 DEF ServiceInv, ReviewInv, IntentIsProposal, ExitKept, CacheIsLatest,
     EntriesReviewed
<1> QED
  BY <1>4, <1>6, <1>7 DEF ServiceInv
(* The end of a cycle, good or bad, wipes it and keeps the reviewer. *)
LEMMA CycleEnds ==
    ASSUME ServiceInv, EndCycle, pc' \in Between,
           UNCHANGED <<config, halts, redisEngaged, evidence, reviewer>>
    PROVE  ServiceInv'
<1> USE DEF EndCycle, halts, reviewer
<1>1. ServiceTypes'
  BY DEF ServiceInv, ServiceTypes, Awaits, Proposal
<1>2. HaltInv'
  BY DEF HaltInv, CleanSlate, StandingInForce, KeyNoticed, NoIntentUnderHalt, OnlyIntentSent,
     Between, Unreviewed, Executing
<1>3. ReviewInv'
  BY DEF ServiceInv, ReviewInv, IntentIsProposal, ExitKept, CacheIsLatest, EntriesReviewed,
     Between, Unreviewed, Executing
<1> QED
  BY <1>1, <1>2, <1>3 DEF ServiceInv

LEMMA LoopStep ==
    ServiceInv /\ (Boundary \/ Backoff \/ Sleep \/ Exit) => ServiceInv'
<1> SUFFICES ASSUME ServiceInv, Boundary \/ Backoff \/ Sleep \/ Exit PROVE ServiceInv'
  OBVIOUS
<1> USE DEF Boundary, Backoff, Sleep, Exit, AfterSymbol, cycle, reviewer, halts
<1>1. pc \in Between /\ pc' \in Between
  BY DEF Between
<1>2. UNCHANGED <<config, sentinel, key, signalled, redisEngaged, proposal, intent, evidence,
                  cache, approvals, decided, standing, sent>>
  OBVIOUS
<1>3. ServiceTypes'
  BY <1>1, <1>2 DEF ServiceInv, ServiceTypes, Awaits
<1>4. HaltInv'
  BY <1>1, <1>2 DEF ServiceInv, HaltInv, CleanSlate, StandingInForce, KeyNoticed,
     NoIntentUnderHalt, OnlyIntentSent, InForce, Between, Unreviewed, Executing
<1>5. ReviewInv'
  BY <1>1, <1>2 DEF ServiceInv, ReviewInv, IntentIsProposal, ExitKept, CacheIsLatest,
     EntriesReviewed, Between, Unreviewed, Executing
<1> QED
  BY <1>3, <1>4, <1>5 DEF ServiceInv

(* A cycle begins with the halts in force, and the probe answers with the  *)
(* key or, when it fails, with a halt.                                     *)
LEMMA BeginStep == ServiceInv /\ (BeginSymbol \/ Probe) => ServiceInv'
<1> SUFFICES ASSUME ServiceInv, BeginSymbol \/ Probe PROVE ServiceInv'
  OBVIOUS
<1> USE DEF cycle, reviewer, halts
<1>1. UNCHANGED <<config, sentinel, key, signalled, proposal, intent, evidence, cache,
                  approvals, decided, sent>>
  BY DEF BeginSymbol, Probe
<1>2. pc \in {"symbol", "probe"} /\ pc' \in {"probe", "gather"}
  BY DEF BeginSymbol, Probe
<1>3. redisEngaged' \in BOOLEAN
  BY DEF BeginSymbol, Probe, Probed, ServiceInv, ServiceTypes
<1>4. ServiceTypes'
  BY <1>1, <1>2, <1>3 DEF ServiceInv, ServiceTypes, Awaits
<1>5. InForce' = InForce
  BY <1>1 DEF InForce
<1>6. StandingInForce'
  BY <1>5 DEF BeginSymbol, Probe, ServiceInv, HaltInv, StandingInForce
<1>7. KeyNoticed'
  <2>1. CASE BeginSymbol
    BY <2>1 DEF BeginSymbol, KeyNoticed
  <2>2. ASSUME Probe, "redis" \in standing' PROVE redisEngaged'
    <3>1. key = TRUE /\ config.redis = "wired"
      BY <2>2, InForceChannels
         DEF Probe, ServiceInv, ServiceTypes, HaltInv, StandingInForce
    <3> QED
      BY <2>2, <3>1 DEF Probe, Probed
  <2> QED
    BY <2>1, <2>2 DEF KeyNoticed
<1>8. intent = "none" /\ decided = "none" /\ sent = {}
  BY <1>2 DEF ServiceInv, HaltInv, CleanSlate, Between, Executing
<1>9. HaltInv'
  BY <1>1, <1>2, <1>6, <1>7, <1>8
     DEF HaltInv, CleanSlate, NoIntentUnderHalt, OnlyIntentSent, Between, Unreviewed, Executing
<1>10. ReviewInv'
  BY <1>1, <1>2, <1>8 DEF ServiceInv, ReviewInv, IntentIsProposal, ExitKept, CacheIsLatest,
     EntriesReviewed, Unreviewed, Executing
<1> QED
  BY <1>4, <1>9, <1>10 DEF ServiceInv

(* The risk decision: no proposal passes an engaged switch. *)
LEMMA DecideStep == ServiceInv /\ Decide => ServiceInv'
<1> SUFFICES ASSUME ServiceInv, Decide PROVE ServiceInv'
  OBVIOUS
<1> USE DEF Decide, reviewer, halts
<1>1. ServiceTypes'
  BY DEF ServiceInv, ServiceTypes, Awaits, Unreviewed
<1>2. StandingInForce' /\ KeyNoticed'
  BY DEF ServiceInv, HaltInv, StandingInForce, KeyNoticed, InForce, Between
<1>3. standing # {} => intent' = "none"
  BY StandingEngages DEF ServiceInv, HaltInv, Allowed
<1>4. HaltInv'
  BY <1>2, <1>3 DEF ServiceInv, HaltInv, CleanSlate, NoIntentUnderHalt, OnlyIntentSent,
     Between, Unreviewed, Executing
<1>5. IntentIsProposal' /\ ExitKept'
  BY DEF IntentIsProposal, ExitKept, Allowed
<1>6. CacheIsLatest' /\ EntriesReviewed'
  BY DEF ServiceInv, ReviewInv, CacheIsLatest, EntriesReviewed, Executing
<1> QED
  BY <1>1, <1>4, <1>5, <1>6 DEF ServiceInv, ReviewInv
(* What a verdict does, whichever way it was come by: an approval must be  *)
(* on record, and nothing but an approval passes an entry in veto mode.    *)
LEMMA VerdictStep ==
    ASSUME ServiceInv, NEW verdict, Reviewed(verdict),
           pc \in Unreviewed, proposal = "entry",
           cache' \in [Evidence -> {"none", "approve", "veto"}],
           CacheIsLatest',
           verdict = "approve" => evidence \in approvals'
    PROVE  ServiceInv'
<1> USE DEF Reviewed, halts
<1>1. ServiceTypes'
  BY DEF ServiceInv, ServiceTypes, Awaits, Executing
<1>2. intent' \in {"none", intent}
  BY DEF AfterReview
<1>3. config.review = "veto" /\ intent' # "none" => verdict = "approve"
  BY DEF AfterReview
<1>4. StandingInForce' /\ KeyNoticed'
  BY DEF ServiceInv, HaltInv, StandingInForce, KeyNoticed, InForce, Between, Unreviewed
<1>5. sent = {}
  BY DEF ServiceInv, HaltInv, CleanSlate, Unreviewed, Executing
<1>6. NoIntentUnderHalt'
  BY <1>2 DEF ServiceInv, HaltInv, NoIntentUnderHalt, Unreviewed, Executing
<1>7. HaltInv'
  BY <1>4, <1>5, <1>6 DEF HaltInv, CleanSlate, OnlyIntentSent, Between, Executing
<1>8. decided # "exit"
  BY DEF ServiceInv, ReviewInv, ExitKept
<1>9. IntentIsProposal' /\ ExitKept'
  BY <1>2, <1>8 DEF ServiceInv, ReviewInv, IntentIsProposal, ExitKept
<1>10. EntriesReviewed'
  BY <1>3 DEF ServiceInv, ReviewInv, EntriesReviewed, Unreviewed, Executing
<1> QED
  BY <1>1, <1>7, <1>9, <1>10 DEF ServiceInv, ReviewInv

LEMMA ReviewStep == ServiceInv /\ ReviewNext => ServiceInv'
<1> SUFFICES ASSUME ServiceInv, ReviewNext PROVE ServiceInv'
  OBVIOUS
<1> USE DEF reviewer
<1>1. /\ cache \in [Evidence -> {"none", "approve", "veto"}]
      /\ proposal \in Proposal
      /\ CacheIsLatest
  BY DEF ServiceInv, ServiceTypes, ReviewInv
<1>2. ~ NotReviewed => proposal = "entry" /\ config.review # "off"
  BY DEF NotReviewed
<1>3. CASE SkipReview \/ AskReviewer
  <2> USE DEF SkipReview, AskReviewer, cycle, halts
  <2>1. UNCHANGED <<config, sentinel, key, signalled, redisEngaged, proposal, intent,
                    evidence, cache, approvals, decided, standing, sent>>
    BY <1>3
  <2>2. pc = "review" /\ pc' \in {"deliver", "asked"}
    BY <1>3
  <2>3. ServiceTypes'
    BY <2>1, <2>2 DEF ServiceInv, ServiceTypes, Awaits, Unreviewed, Executing
  <2>4. HaltInv'
    BY <2>1, <2>2 DEF ServiceInv, HaltInv, CleanSlate, StandingInForce, KeyNoticed,
       NoIntentUnderHalt, OnlyIntentSent, InForce, Between, Unreviewed, Executing
  <2>5. pc' = "asked" => proposal = "entry"
    BY <1>2, <1>3
  <2>6. pc' = "deliver" => config.review = "off" \/ proposal # "entry"
    BY <1>3 DEF NotReviewed
  <2>7. ReviewInv'
    BY <2>1, <2>2, <2>5, <2>6 DEF ServiceInv, ReviewInv, IntentIsProposal, ExitKept,
       CacheIsLatest, EntriesReviewed, Unreviewed, Executing
  <2> QED
    BY <2>3, <2>4, <2>7 DEF ServiceInv
<1>4. CASE CachedReview
  <2>1. pc \in Unreviewed /\ Reviewed(cache[evidence]) /\ proposal = "entry"
        /\ evidence \in Evidence /\ UNCHANGED <<cache, approvals>>
    BY <1>2, <1>4 DEF CachedReview, ServiceInv, ReviewInv, EntriesReviewed, Unreviewed
  <2>2. CacheIsLatest'
    BY <1>1, <2>1 DEF CacheIsLatest
  <2>3. cache[evidence] = "approve" => evidence \in approvals'
    BY <1>1, <2>1 DEF CacheIsLatest
  <2> QED
    BY <1>1, <2>1, <2>2, <2>3, VerdictStep
<1>5. CASE ReviewOverBudget \/ ReviewerFails
  <2>1. pc \in Unreviewed /\ Reviewed("unusable") /\ proposal = "entry"
        /\ UNCHANGED <<cache, approvals>>
    BY <1>2, <1>5
       DEF ReviewOverBudget, ReviewerFails, ServiceInv, ReviewInv, EntriesReviewed, Unreviewed
  <2>2. CacheIsLatest'
    BY <1>1, <2>1 DEF CacheIsLatest
  <2> QED
    BY <1>1, <2>1, <2>2, VerdictStep
<1>6. CASE ReviewerAnswers
  <2>1. PICK verdict \in {"approve", "veto"} :
           /\ Reviewed(verdict)
           /\ cache' = [cache EXCEPT ![evidence] = verdict]
           /\ approvals' = IF verdict = "approve" THEN approvals \cup {evidence}
                           ELSE approvals \ {evidence}
    BY <1>6 DEF ReviewerAnswers
  <2>2. pc \in Unreviewed /\ proposal = "entry"
    BY <1>6 DEF ReviewerAnswers, ServiceInv, ReviewInv, EntriesReviewed, Unreviewed
  <2>3. cache' \in [Evidence -> {"none", "approve", "veto"}]
    BY <1>1, <2>1
  <2>4. CacheIsLatest'
    BY <1>1, <2>1 DEF CacheIsLatest
  <2>5. verdict = "approve" => evidence \in approvals'
    BY <2>1
  <2> QED
    BY <2>1, <2>2, <2>3, <2>4, <2>5, VerdictStep
<1> QED
  BY <1>3, <1>4, <1>5, <1>6 DEF ReviewNext

(* An order, a shadow record or a paper fill needs an intent, and nothing  *)
(* else of the cycle changes.                                              *)
LEMMA ExecuteStep ==
    ServiceInv /\ (Deliver \/ NothingToDeliver \/ SkipFill \/ PaperFill) => ServiceInv'
<1> SUFFICES ASSUME ServiceInv, Deliver \/ NothingToDeliver \/ SkipFill \/ PaperFill
             PROVE  ServiceInv'
  OBVIOUS
<1> USE DEF Deliver, NothingToDeliver, SkipFill, PaperFill, reviewer
<1>1. CASE CycleFails /\ UNCHANGED reviewer
  BY <1>1, CycleEnds DEF CycleFails, Between
<1>2. CASE /\ pc \in Executing /\ pc' \in Executing
           /\ sent' # sent => intent # "none"
           /\ UNCHANGED <<config, halts, redisEngaged, cycle, reviewer, standing>>
  <2> USE <1>2 DEF halts, cycle
  <2>1. ServiceTypes'
    BY DEF ServiceInv, ServiceTypes, Awaits
  <2>2. CleanSlate' /\ StandingInForce' /\ KeyNoticed'
    BY DEF ServiceInv, HaltInv, CleanSlate, StandingInForce, KeyNoticed, InForce, Between,
       Executing
  <2>3. NoIntentUnderHalt' /\ OnlyIntentSent'
    BY DEF ServiceInv, HaltInv, NoIntentUnderHalt, OnlyIntentSent
  <2>4. ReviewInv'
    BY DEF ServiceInv, ReviewInv, IntentIsProposal, ExitKept, CacheIsLatest, EntriesReviewed,
       Unreviewed, Executing
  <2> QED
    BY <2>1, <2>2, <2>3, <2>4 DEF ServiceInv, HaltInv
<1> QED
  BY <1>1, <1>2 DEF Executing, FillWithheld

(* Every step of the service, of the reviewer and of the operator keeps    *)
(* the invariant (service.py, runtime.py, killswitch.py, agents/review.py).*)
LEMMA ServiceStep == ServiceInv /\ [ServiceNext]_serviceVars => ServiceInv'
<1> SUFFICES ASSUME ServiceInv, [ServiceNext]_serviceVars PROVE ServiceInv'
  OBVIOUS
<1>1. CASE OperatorNext
  BY <1>1, OperatorStep
<1>2. CASE BoundedNext
  BY <1>2, LoopStep, BeginStep, ReviewStep, ExecuteStep DEF BoundedNext
<1>3. CASE UnboundedNext
  <2>1. CASE Probe \/ Decide
    BY <2>1, BeginStep, DecideStep
  <2>2. CASE GatherFails \/ WrapupFails
    BY <2>2, CycleEnds DEF GatherFails, WrapupFails, CycleFails, Between
  <2>3. CASE CycleSucceeds
    BY <2>3, CycleEnds DEF CycleSucceeds, AfterSymbol, Between
  <2> QED
    BY <1>3, <2>1, <2>2, <2>3 DEF UnboundedNext
<1>4. CASE CacheExpires \/ NewDay \/ Ended \/ UNCHANGED serviceVars
  <2> USE DEF CacheExpires, NewDay, Ended, serviceVars, halts, cycle
  <2>1. UNCHANGED <<config, pc, sentinel, key, signalled, redisEngaged, proposal, intent,
                    evidence, approvals, decided, standing, sent>>
    BY <1>4
  <2>2. /\ cache' \in [Evidence -> {"none", "approve", "veto"}]
        /\ CacheIsLatest'
    BY <1>4 DEF ServiceInv, ServiceTypes, ReviewInv, CacheIsLatest
  <2>3. ServiceTypes'
    BY <2>1, <2>2 DEF ServiceInv, ServiceTypes
  <2>4. HaltInv'
    BY <2>1 DEF ServiceInv, HaltInv, CleanSlate, StandingInForce, KeyNoticed,
       NoIntentUnderHalt, OnlyIntentSent, InForce
  <2>5. ReviewInv'
    BY <2>1, <2>2 DEF ServiceInv, ReviewInv, IntentIsProposal, ExitKept, EntriesReviewed
  <2> QED
    BY <2>3, <2>4, <2>5 DEF ServiceInv
<1> QED
  BY <1>1, <1>2, <1>3, <1>4 DEF ServiceNext

-----------------------------------------------------------------------------
(* The invariant that both results rest on: halts, intent and reviews as   *)
(* the service keeps them between any two awaits.                          *)
THEOREM ServiceInvariance == ServiceSpec => []ServiceInv
BY ServiceInitially, ServiceStep, PTL DEF ServiceSpec

(* A halt engaged on any channel before a symbol cycle began, and not      *)
(* lifted since, lets the cycle execute nothing: neither order nor paper   *)
(* fill nor shadow record (killswitch.refresh, RiskEngine.evaluate).       *)
THEOREM HaltsAreHonoured == ServiceSpec => []HaltHonoured
<1>1. ServiceInv => HaltHonoured
  BY DEF ServiceInv, HaltInv, CleanSlate, NoIntentUnderHalt, OnlyIntentSent, HaltHonoured
<1> QED
  BY <1>1, ServiceInvariance, PTL

(* In veto mode no entry is executed on evidence the reviewer's latest     *)
(* answer does not approve, and no review withholds an exit the risk       *)
(* engine allowed (agents/review.py).                                      *)
THEOREM ReviewsAreHonoured == ServiceSpec => []ReviewHonoured
<1>1. ServiceInv => VetoFailsClosed
  BY DEF ServiceInv, HaltInv, ReviewInv, CleanSlate, OnlyIntentSent, EntriesReviewed,
     VetoFailsClosed
<1>2. ServiceInv => ExitNeverVetoed
  BY DEF ServiceInv, ReviewInv, ExitKept, ExitNeverVetoed
<1> QED
  BY <1>1, <1>2, ServiceInvariance, PTL DEF ReviewHonoured

-----------------------------------------------------------------------------
(***************************************************************************)
(* The strategy breaker.                                                   *)
(***************************************************************************)
(* The trip in memory or in the checkpoint that the end of the last        *)
(* checkpointed suspension goes back to.                                   *)
Carries(at) == at # Untripped /\ at + Cooldown >= heldUntil

(* SuspensionHolds is not inductive: a load takes the trip from the        *)
(* checkpoint, and an export writes back what is in memory.  While the     *)
(* suspension lasts, both carry it.                                        *)
SuspensionInv ==
    clock < heldUntil =>
        /\ Carries(stored.trippedAt)
        /\ running => Carries(trippedAt)

BreakerInv == BreakerTypeOK /\ SuspensionInv

LEMMA TrimmedBounded ==
    ASSUME NEW s \in Seq(Int), NEW n \in Nat, Len(s) <= n + 1
    PROVE  Trimmed(s, n) \in Seq(Int) /\ Len(Trimmed(s, n)) <= n
BY DEF Trimmed

(* A recorded outcome keeps a trip as it is, and trips at its own time. *)
LEMMA RecordKeepsInv ==
    ASSUME BreakerInv,
           NEW pnl \in Outcomes, NEW at \in Nat, at <= clock,
           RecordClosedTrade(pnl, at)
    PROVE  BreakerInv'
<1> USE BreakerAssumption
<1>1. pnl \in Int
  OBVIOUS
<1>2. trades' \in Seq(Int) /\ Len(trades') <= Window
  <2>1. Append(trades, pnl) \in Seq(Int) /\ Len(Append(trades, pnl)) <= Window + 1
    BY <1>1 DEF BreakerInv, BreakerTypeOK
  <2> QED
    BY <2>1, TrimmedBounded DEF RecordClosedTrade
<1>3. losses' \in Nat
  BY <1>1 DEF BreakerInv, BreakerTypeOK, RecordClosedTrade, NextLosses
<1>4. /\ trippedAt' \in Int /\ trippedAt' >= Untripped /\ trippedAt' <= clock
      /\ trippedAt # Untripped => trippedAt' = trippedAt
  BY DEF BreakerInv, BreakerTypeOK, RecordClosedTrade, NextTrippedAt, Untripped
<1>5. UNCHANGED <<stored, clock, running, heldUntil>>
  BY DEF RecordClosedTrade
<1>6. BreakerTypeOK'
  BY <1>2, <1>3, <1>4, <1>5 DEF BreakerInv, BreakerTypeOK
<1>7. SuspensionInv'
  BY <1>4, <1>5 DEF BreakerInv, SuspensionInv, Carries
<1> QED
  BY <1>6, <1>7 DEF BreakerInv

(* Every step of the breaker and of the process around it keeps the types  *)
(* and the suspension (circuit_breaker.py, checkpoint.py).                 *)
LEMMA BreakerStep == BreakerInv /\ [BreakerNext]_breakerVars => BreakerInv'
<1> USE BreakerAssumption
<1> SUFFICES ASSUME BreakerInv, [BreakerNext]_breakerVars PROVE BreakerInv'
  OBVIOUS
<1>1. CASE RecordReducingFill
  <2>1. clock \in Nat
    BY DEF BreakerInv, BreakerTypeOK
  <2> QED
    BY <1>1, <2>1, RecordKeepsInv DEF RecordReducingFill
<1>2. CASE RecordLedgerClose
  <2>1. clock \in Nat
    BY DEF BreakerInv, BreakerTypeOK
  <2>2. PICK pnl \in Outcomes, at \in 0 .. clock : RecordClosedTrade(pnl, at)
    BY <1>2 DEF RecordLedgerClose
  <2> QED
    BY <2>1, <2>2, RecordKeepsInv
<1>3. CASE Reset
  <2>1. BreakerTypeOK'
    BY <1>3 DEF BreakerInv, BreakerTypeOK, Reset, Untripped
  <2>2. ~ (clock < heldUntil)
    BY <1>3 DEF BreakerInv, BreakerTypeOK, SuspensionInv, Carries, Reset, CooledDown
  <2> QED
    BY <1>3, <2>1, <2>2 DEF BreakerInv, SuspensionInv, Reset
<1>4. CASE Export
  <2>1. BreakerTypeOK'
    BY <1>4 DEF BreakerInv, BreakerTypeOK, Export, Untripped
  <2>2. SuspensionInv'
    BY <1>4 DEF BreakerInv, BreakerTypeOK, SuspensionInv, Carries, Export
  <2> QED
    BY <2>1, <2>2 DEF BreakerInv
<1>5. CASE Crash
  BY <1>5 DEF BreakerInv, BreakerTypeOK, SuspensionInv, Carries, Crash
<1>6. CASE Load
  BY <1>6 DEF BreakerInv, BreakerTypeOK, SuspensionInv, Carries, Load
<1>7. CASE Tick
  BY <1>7 DEF BreakerInv, BreakerTypeOK, SuspensionInv, Carries, Tick
<1>8. CASE UNCHANGED breakerVars
  BY <1>8 DEF BreakerInv, BreakerTypeOK, SuspensionInv, Carries, breakerVars
<1> QED
  BY <1>1, <1>2, <1>3, <1>4, <1>5, <1>6, <1>7, <1>8 DEF BreakerNext

LEMMA BreakerInvariance == BreakerSpec => []BreakerInv
<1>1. BreakerInit => BreakerInv
  BY BreakerAssumption
  DEF BreakerInit, BreakerInv, BreakerTypeOK, SuspensionInv, Fresh, Untripped
<1> QED
  BY <1>1, BreakerStep, PTL DEF BreakerSpec

(* The window of trades never grows past its length and a trip never lies  *)
(* in the future, in memory and in the checkpoint (record_closed_trade,    *)
(* record_ledger_close, load).                                             *)
THEOREM BreakerTypeCorrect == BreakerSpec => []BreakerTypeOK
BY BreakerInvariance, PTL DEF BreakerInv

(* A suspension that reached the checkpoint holds until its cool-down has  *)
(* passed, over any number of outcomes, exports, crashes and restarts      *)
(* (is_tripped, export, load).                                             *)
THEOREM SuspensionLasts == BreakerSpec => []SuspensionHolds
<1>1. BreakerInv => SuspensionHolds
  BY DEF BreakerInv, SuspensionInv, SuspensionHolds, Carries
<1> QED
  BY <1>1, BreakerInvariance, PTL

-----------------------------------------------------------------------------
(***************************************************************************)
(* Induction and recursion.  The step of a recursion and the property of   *)
(* an induction are a function and a set.                                  *)
(***************************************************************************)

(* Induction over an interval, with the property given as a set. *)
LEMMA IntervalInduction ==
    ASSUME NEW a \in Int, NEW b \in Int, NEW S,
           a \in S, \A i \in a + 1 .. b : i - 1 \in S => i \in S
    PROVE  \A i \in a .. b : i \in S
<1> DEFINE R == OpToRel(<, Nat)
           T == {k \in Nat : a + k <= b /\ a + k \notin S}
<1> SUFFICES T = {}
  <2> SUFFICES ASSUME T = {}, NEW i \in a .. b, i \notin S PROVE FALSE
    OBVIOUS
  <2>1. i - a \in T
    OBVIOUS
  <2> QED
    BY <2>1
<1> SUFFICES ASSUME T # {} PROVE FALSE
  OBVIOUS
<1>1. IsWellFoundedOn(R, Nat)
  BY NatLessThanWellFounded
<1>2. \A x, y \in Nat : x < y => <<x, y>> \in R
  BY DEF OpToRel
<1>3. T \subseteq Nat
  OBVIOUS
<1>4. \A k \in T : k # 0 /\ k - 1 \in T /\ k - 1 < k
  OBVIOUS
<1> HIDE DEF R, T
<1>5. PICK x \in T : \A y \in T : ~ (<<y, x>> \in R)
  BY <1>1, <1>3, WFMin
<1>6. x - 1 \in T /\ x - 1 < x
  BY <1>4
<1> QED
  BY <1>2, <1>3, <1>5, <1>6

(* A function on 0 .. n may be defined by recursion, its step given as a   *)
(* function.                                                               *)
LEMMA RecursionExists ==
    ASSUME NEW n \in Nat, NEW g \in [1 .. n -> [Int -> Int]]
    PROVE  \E f \in [0 .. n -> Int] : f[0] = 0 /\ \A i \in 1 .. n : f[i] = g[i][f[i - 1]]
<1>1. PICK S : S = {m \in 0 .. n : \E f \in [0 .. m -> Int] :
                       f[0] = 0 /\ \A i \in 1 .. m : f[i] = g[i][f[i - 1]]}
  OBVIOUS
<1>2. 0 \in S
  <2>1. PICK f : f = [i \in 0 .. 0 |-> 0]
    OBVIOUS
  <2>2. f \in [0 .. 0 -> Int] /\ f[0] = 0 /\ \A i \in 1 .. 0 : f[i] = g[i][f[i - 1]]
    BY <2>1
  <2>3. 0 \in 0 .. n
    OBVIOUS
  <2> QED
    BY <1>1, <2>2, <2>3, Zenon
<1>3. ASSUME NEW m \in 1 .. n, m - 1 \in S PROVE m \in S
  <2>1. PICK f \in [0 .. m - 1 -> Int] :
           f[0] = 0 /\ \A i \in 1 .. m - 1 : f[i] = g[i][f[i - 1]]
    BY <1>1, <1>3
  <2>2. g[m][f[m - 1]] \in Int
    OBVIOUS
  <2>3. PICK h : h = [i \in 0 .. m |-> IF i = m THEN g[m][f[m - 1]] ELSE f[i]]
    OBVIOUS
  <2>4. h \in [0 .. m -> Int]
    <3>1. \A i \in 0 .. m : i # m => i \in 0 .. m - 1
      OBVIOUS
    <3> QED
      BY <2>2, <2>3, <3>1
  <2>5. /\ \A i \in 0 .. m - 1 : h[i] = f[i]
        /\ h[m] = g[m][h[m - 1]]
    BY <2>3
  <2>6. ASSUME NEW i \in 1 .. m, i # m PROVE h[i] = g[i][h[i - 1]]
    <3>1. i \in 1 .. m - 1 /\ i \in 0 .. m - 1 /\ i - 1 \in 0 .. m - 1
      BY <2>6
    <3> QED
      BY <2>1, <2>5, <3>1
  <2>7. h[0] = 0
    BY <2>1, <2>5, 0 \in 0 .. m - 1
  <2>8. \A i \in 1 .. m : h[i] = g[i][h[i - 1]]
    BY <2>5, <2>6
  <2>9. \E f1 \in [0 .. m -> Int] :
           f1[0] = 0 /\ \A i \in 1 .. m : f1[i] = g[i][f1[i - 1]]
    BY <2>4, <2>7, <2>8, Zenon
  <2>10. m \in 0 .. n
    OBVIOUS
  <2> QED
    BY <1>1, <2>9, <2>10, Zenon
<1>4. \A m \in 0 + 1 .. n : m - 1 \in S => m \in S
  BY <1>3
<1>5. n \in Int /\ 0 \in Int /\ n \in 0 .. n
  OBVIOUS
<1>6. \A m \in 0 .. n : m \in S
  BY <1>2, <1>4, <1>5, IntervalInduction, Zenon
<1> QED
  BY <1>1, <1>5, <1>6, Zenon

(* What is defined that way has integer values. *)
LEMMA RecursionTyped ==
    ASSUME NEW n \in Nat, NEW f,
           f[0] = 0, \A i \in 1 .. n : f[i - 1] \in Int => f[i] \in Int
    PROVE  \A i \in 0 .. n : f[i] \in Int
<1>1. PICK S : S = {i \in Int : f[i] \in Int}
  OBVIOUS
<1>2. 0 \in S /\ \A i \in 0 + 1 .. n : i - 1 \in S => i \in S
  BY <1>1
<1>3. n \in Int /\ 0 \in Int
  OBVIOUS
<1>4. \A i \in 0 .. n : i \in S
  BY <1>2, <1>3, IntervalInduction, Zenon
<1> QED
  BY <1>1, <1>4

(***************************************************************************)
(* Sums of outcomes.                                                       *)
(***************************************************************************)

(* c is the running total of the outcomes s. *)
IsCurve(c, s) ==
    /\ c \in [0 .. Len(s) -> Int]
    /\ c[0] = 0
    /\ \A i \in 1 .. Len(s) : c[i] = c[i - 1] + s[i]

LEMMA TotalIsDifference ==
    ASSUME NEW s \in Seq(Int), NEW c, IsCurve(c, s),
           NEW i \in 1 .. Len(s), NEW j \in i .. Len(s)
    PROVE  Total(s, i, j) = c[j] - c[i - 1]
<1> DEFINE sum[k \in i - 1 .. j] == IF k < i THEN 0 ELSE sum[k - 1] + s[k]
<1>1. i \in Int /\ j \in Int /\ Len(s) \in Nat /\ 1 <= i /\ i <= j /\ j <= Len(s)
  OBVIOUS
<1>2. c \in [0 .. Len(s) -> Int] /\ \A k \in 1 .. Len(s) : c[k] = c[k - 1] + s[k]
  BY DEF IsCurve
<1>3. \A k \in i .. j : /\ c[k] \in Int /\ c[k - 1] \in Int /\ s[k] \in Int
                         /\ c[k] = c[k - 1] + s[k]
  <2> SUFFICES ASSUME NEW k \in i .. j
               PROVE  /\ c[k] \in Int /\ c[k - 1] \in Int /\ s[k] \in Int
                      /\ c[k] = c[k - 1] + s[k]
    OBVIOUS
  <2>1. k \in 1 .. Len(s) /\ k \in 0 .. Len(s) /\ k - 1 \in 0 .. Len(s)
    BY <1>1
  <2>2. s[k] \in Int
    BY <2>1
  <2> QED
    BY <1>2, <2>1, <2>2
<1>4. c[i - 1] \in Int
  BY <1>1, <1>3
<1>5. PICK f : f = [k \in i - 1 .. j |-> c[k] - c[i - 1]]
  OBVIOUS
<1>6. f = [k \in i - 1 .. j |-> IF k < i THEN 0 ELSE f[k - 1] + s[k]]
  <2>1. ASSUME NEW k \in i - 1 .. j
        PROVE  c[k] - c[i - 1] = IF k < i THEN 0 ELSE f[k - 1] + s[k]
    <3>1. CASE k = i - 1
      BY <1>1, <1>4, <3>1
    <3>2. CASE k # i - 1
      <4>1. k \in i .. j /\ k - 1 \in i - 1 .. j
        BY <1>1, <3>2
      <4>2. f[k - 1] = c[k - 1] - c[i - 1]
        BY <1>5, <4>1
      <4>3. /\ c[k] \in Int /\ c[k - 1] \in Int /\ s[k] \in Int
            /\ c[k] = c[k - 1] + s[k]
        BY <1>3, <4>1
      <4>4. ~ (k < i)
        BY <1>1, <4>1
      <4>5. c[k] - c[i - 1] = f[k - 1] + s[k]
        BY <1>4, <4>2, <4>3
      <4> QED
        BY <4>4, <4>5
    <3> QED
      BY <3>1, <3>2
  <2> QED
    BY <1>5, <2>1
<1>7. sum = [k \in i - 1 .. j |-> IF k < i THEN 0 ELSE sum[k - 1] + s[k]]
  BY <1>6, Zenon DEF sum
<1>8. Total(s, i, j) = sum[j]
  BY DEF Total
<1> HIDE DEF sum
<1>9. PICK S : S = {k \in i - 1 .. j : sum[k] = c[k] - c[i - 1]}
  OBVIOUS
<1>10. i - 1 \in S
  <2>1. i - 1 \in i - 1 .. j /\ i - 1 < i
    BY <1>1
  <2>2. sum[i - 1] = 0
    BY <1>7, <2>1
  <2> QED
    BY <1>4, <1>9, <2>1, <2>2
<1>11. ASSUME NEW k \in (i - 1) + 1 .. j, k - 1 \in S PROVE k \in S
  <2>1. k \in i .. j /\ k \in i - 1 .. j /\ ~ (k < i)
    BY <1>1
  <2>2. sum[k] = sum[k - 1] + s[k]
    BY <1>7, <2>1
  <2>3. sum[k - 1] = c[k - 1] - c[i - 1]
    BY <1>9, <1>11
  <2>4. sum[k] = c[k] - c[i - 1]
    BY <1>3, <1>4, <2>1, <2>2, <2>3
  <2> QED
    BY <1>9, <2>1, <2>4
<1>12. i - 1 \in Int /\ j \in i - 1 .. j
  BY <1>1
<1>13. \A k \in (i - 1) + 1 .. j : k - 1 \in S => k \in S
  BY <1>11
<1>14. \A k \in i - 1 .. j : k \in S
  BY <1>1, <1>10, <1>12, <1>13, IntervalInduction, Zenon
<1> QED
  BY <1>8, <1>9, <1>12, <1>14

(* A sequence of outcomes has a curve, and rolling_drawdown follows it:    *)
(* its peaks are the largest values so far, and the result is the largest  *)
(* fall from a peak.                                                       *)
LEMMA DrawdownCurves ==
    ASSUME NEW s \in Seq(Int)
    PROVE  \E c, p, w :
              /\ IsCurve(c, s)
              /\ p \in [0 .. Len(s) -> Int] /\ w \in [0 .. Len(s) -> Int]
              /\ p[0] = 0 /\ w[0] = 0
              /\ \A i \in 1 .. Len(s) :
                    p[i] = Larger(p[i - 1], c[i]) /\ w[i] = Larger(w[i - 1], p[i] - c[i])
              /\ RollingDrawdown(s) = w[Len(s)]
<1> DEFINE curve[i \in 0 .. Len(s)] == IF i = 0 THEN 0 ELSE curve[i - 1] + s[i]
           peak[i \in 0 .. Len(s)]  == IF i = 0 THEN 0 ELSE Larger(peak[i - 1], curve[i])
           worst[i \in 0 .. Len(s)] ==
              IF i = 0 THEN 0 ELSE Larger(worst[i - 1], peak[i] - curve[i])
<1>1. RollingDrawdown(s) = worst[Len(s)]
  BY DEF RollingDrawdown
<1>2. PICK n \in Nat : n = Len(s)
  OBVIOUS
<1>4. \A m, k \in Int : Larger(m, k) \in Int
  BY DEF Larger
<1>5. \A i \in 1 .. n : s[i] \in Int
  BY <1>2
<1>6. curve \in [0 .. n -> Int] /\ curve[0] = 0 /\ \A i \in 1 .. n : curve[i] = curve[i - 1] + s[i]
  <2>1. PICK g : g = [i \in 1 .. n |-> [v \in Int |-> v + s[i]]]
    OBVIOUS
  <2>2. g \in [1 .. n -> [Int -> Int]] /\ \A i \in 1 .. n, v \in Int : g[i][v] = v + s[i]
    BY <1>5, <2>1
  <2>3. PICK f \in [0 .. n -> Int] : f[0] = 0 /\ \A i \in 1 .. n : f[i] = g[i][f[i - 1]]
    BY <2>2, RecursionExists, Zenon
  <2>4. f = [i \in 0 .. n |-> IF i = 0 THEN 0 ELSE f[i - 1] + s[i]]
    <3>1. ASSUME NEW i \in 0 .. n, i # 0 PROVE f[i] = f[i - 1] + s[i]
      <4>1. i \in 1 .. n /\ i - 1 \in 0 .. n
        BY <3>1
      <4> QED
        BY <2>2, <2>3, <4>1
    <3> QED
      BY <2>3, <3>1
  <2>5. curve = [i \in 0 .. n |-> IF i = 0 THEN 0 ELSE curve[i - 1] + s[i]]
    BY <1>2, <2>4, Zenon DEF curve
  <2> HIDE DEF curve, peak, worst
  <2>6. curve[0] = 0 /\ \A i \in 1 .. n : curve[i] = curve[i - 1] + s[i]
    BY <2>5
  <2>7. \A i \in 0 .. n : curve[i] \in Int
    <3>1. ASSUME NEW i \in 1 .. n, curve[i - 1] \in Int PROVE curve[i] \in Int
      <4>1. curve[i] = curve[i - 1] + s[i] /\ s[i] \in Int
        BY <1>5, <2>6, Zenon
      <4>2. PICK u \in Int, v \in Int : u = curve[i - 1] /\ v = s[i]
        BY <3>1, <4>1, Zenon
      <4>3. u + v \in Int
        OBVIOUS
      <4> QED
        BY <4>1, <4>2, <4>3, Zenon
    <3>2. \A i \in 1 .. n : curve[i - 1] \in Int => curve[i] \in Int
      BY <3>1
    <3> QED
      BY <2>6, <3>2, RecursionTyped, Zenon
  <2> QED
    BY <2>5, <2>6, <2>7
<1> HIDE DEF curve
<1>7. /\ peak \in [0 .. n -> Int] /\ peak[0] = 0
      /\ \A i \in 1 .. n : peak[i] = Larger(peak[i - 1], curve[i])
  <2>1. PICK g : g = [i \in 1 .. n |-> [v \in Int |-> Larger(v, curve[i])]]
    OBVIOUS
  <2>2. /\ g \in [1 .. n -> [Int -> Int]]
        /\ \A i \in 1 .. n, v \in Int : g[i][v] = Larger(v, curve[i])
    <3>1. \A i \in 1 .. n : curve[i] \in Int
      BY <1>6
    <3> QED
      BY <1>4, <2>1, <3>1
  <2>3. PICK f \in [0 .. n -> Int] : f[0] = 0 /\ \A i \in 1 .. n : f[i] = g[i][f[i - 1]]
    BY <2>2, RecursionExists, Zenon
  <2>4. f = [i \in 0 .. n |-> IF i = 0 THEN 0 ELSE Larger(f[i - 1], curve[i])]
    <3>1. ASSUME NEW i \in 0 .. n, i # 0 PROVE f[i] = Larger(f[i - 1], curve[i])
      <4>1. i \in 1 .. n /\ i - 1 \in 0 .. n
        BY <3>1
      <4> QED
        BY <2>2, <2>3, <4>1
    <3> QED
      BY <2>3, <3>1
  <2>5. peak = [i \in 0 .. n |-> IF i = 0 THEN 0 ELSE Larger(peak[i - 1], curve[i])]
    BY <1>2, <2>4, Zenon DEF peak
  <2> HIDE DEF peak, worst
  <2>6. peak[0] = 0 /\ \A i \in 1 .. n : peak[i] = Larger(peak[i - 1], curve[i])
    BY <2>5
  <2>7. \A i \in 0 .. n : peak[i] \in Int
    <3>1. ASSUME NEW i \in 1 .. n, peak[i - 1] \in Int PROVE peak[i] \in Int
      <4>1. peak[i] = Larger(peak[i - 1], curve[i]) /\ curve[i] \in Int
        BY <1>6, <2>6
      <4> QED
        BY <1>4, <3>1, <4>1
    <3>2. \A i \in 1 .. n : peak[i - 1] \in Int => peak[i] \in Int
      BY <3>1
    <3> QED
      BY <2>6, <3>2, RecursionTyped, Zenon
  <2> QED
    BY <2>5, <2>6, <2>7
<1> HIDE DEF peak
<1>8. /\ worst \in [0 .. n -> Int] /\ worst[0] = 0
      /\ \A i \in 1 .. n : worst[i] = Larger(worst[i - 1], peak[i] - curve[i])
  <2>1. PICK g : g = [i \in 1 .. n |-> [v \in Int |-> Larger(v, peak[i] - curve[i])]]
    OBVIOUS
  <2>2. /\ g \in [1 .. n -> [Int -> Int]]
        /\ \A i \in 1 .. n, v \in Int : g[i][v] = Larger(v, peak[i] - curve[i])
    <3>1. \A i \in 1 .. n : peak[i] - curve[i] \in Int
      BY <1>6, <1>7
    <3> QED
      BY <1>4, <2>1, <3>1
  <2>3. PICK f \in [0 .. n -> Int] : f[0] = 0 /\ \A i \in 1 .. n : f[i] = g[i][f[i - 1]]
    BY <2>2, RecursionExists, Zenon
  <2>4. f = [i \in 0 .. n |-> IF i = 0 THEN 0 ELSE Larger(f[i - 1], peak[i] - curve[i])]
    <3>1. ASSUME NEW i \in 0 .. n, i # 0 PROVE f[i] = Larger(f[i - 1], peak[i] - curve[i])
      <4>1. i \in 1 .. n /\ i - 1 \in 0 .. n
        BY <3>1
      <4> QED
        BY <2>2, <2>3, <4>1
    <3> QED
      BY <2>3, <3>1
  <2>5. worst = [i \in 0 .. n |->
                    IF i = 0 THEN 0 ELSE Larger(worst[i - 1], peak[i] - curve[i])]
    BY <1>2, <2>4, Zenon DEF worst
  <2> HIDE DEF worst
  <2>6. worst[0] = 0 /\ \A i \in 1 .. n : worst[i] = Larger(worst[i - 1], peak[i] - curve[i])
    BY <2>5
  <2>7. \A i \in 0 .. n : worst[i] \in Int
    <3>1. ASSUME NEW i \in 1 .. n, worst[i - 1] \in Int PROVE worst[i] \in Int
      <4>1. worst[i] = Larger(worst[i - 1], peak[i] - curve[i])
        BY <2>6
      <4>2. peak[i] - curve[i] \in Int
        BY <1>6, <1>7
      <4> QED
        BY <1>4, <3>1, <4>1, <4>2
    <3>2. \A i \in 1 .. n : worst[i - 1] \in Int => worst[i] \in Int
      BY <3>1
    <3> QED
      BY <2>6, <3>2, RecursionTyped, Zenon
  <2> QED
    BY <2>5, <2>6, <2>7
<1> HIDE DEF worst
<1>9. IsCurve(curve, s)
  BY <1>2, <1>6 DEF IsCurve
<1> QED
  BY <1>1, <1>2, <1>7, <1>8, <1>9

LEMMA RunningPeak ==
    ASSUME NEW n \in Nat, NEW c \in [0 .. n -> Int], NEW p \in [0 .. n -> Int],
           c[0] = 0, p[0] = 0, \A i \in 1 .. n : p[i] = Larger(p[i - 1], c[i])
    PROVE  \A k \in 0 .. n :
              (\A i \in 0 .. k : c[i] <= p[k]) /\ \E i \in 0 .. k : c[i] = p[k]
<1>1. PICK S : S = {k \in 0 .. n : (\A i \in 0 .. k : c[i] <= p[k])
                                   /\ \E i \in 0 .. k : c[i] = p[k]}
  OBVIOUS
<1>2. 0 \in S
  <2>1. 0 \in 0 .. n /\ 0 \in 0 .. 0 /\ \A i \in 0 .. 0 : i = 0
    OBVIOUS
  <2>2. c[0] <= p[0]
    OBVIOUS
  <2> QED
    BY <1>1, <2>1, <2>2
<1>3. ASSUME NEW k \in 1 .. n, k - 1 \in S PROVE k \in S
  <2>1. /\ \A i \in 0 .. k - 1 : c[i] <= p[k - 1]
        /\ \E i \in 0 .. k - 1 : c[i] = p[k - 1]
    BY <1>1, <1>3
  <2>2. p[k] = Larger(p[k - 1], c[k])
    OBVIOUS
  <2>3. /\ k \in 0 .. n /\ k \in 0 .. k /\ k - 1 \in 0 .. n
        /\ c[k] \in Int /\ p[k] \in Int /\ p[k - 1] \in Int
    OBVIOUS
  <2>4. p[k - 1] <= p[k] /\ c[k] <= p[k] /\ (p[k] = p[k - 1] \/ p[k] = c[k])
    BY <2>2, <2>3 DEF Larger
  <2>5. ASSUME NEW i \in 0 .. k PROVE c[i] <= p[k]
    <3>1. CASE i = k
      BY <2>4, <3>1
    <3>2. CASE i # k
      <4>1. i \in 0 .. k - 1 /\ c[i] \in Int
        BY <3>2
      <4>2. c[i] <= p[k - 1]
        BY <2>1, <4>1
      <4> QED
        BY <2>3, <2>4, <4>1, <4>2
    <3> QED
      BY <3>1, <3>2
  <2>6. \E i \in 0 .. k : c[i] = p[k]
    <3>1. PICK i \in 0 .. k - 1 : c[i] = p[k - 1]
      BY <2>1
    <3>2. i \in 0 .. k
      OBVIOUS
    <3> QED
      BY <2>3, <2>4, <3>1, <3>2
  <2> QED
    BY <1>1, <2>3, <2>5, <2>6
<1>4. \A k \in 0 + 1 .. n : k - 1 \in S => k \in S
  BY <1>3
<1>5. n \in Int /\ 0 \in Int
  OBVIOUS
<1>6. \A k \in 0 .. n : k \in S
  BY <1>2, <1>4, <1>5, IntervalInduction, Zenon
<1> QED
  BY <1>1, <1>6

LEMMA RunningWorst ==
    ASSUME NEW n \in Nat, NEW d \in [1 .. n -> Int], NEW w \in [0 .. n -> Int],
           w[0] = 0, \A i \in 1 .. n : w[i] = Larger(w[i - 1], d[i])
    PROVE  (\A i \in 1 .. n : d[i] <= w[n]) /\ (w[n] = 0 \/ \E i \in 1 .. n : d[i] = w[n])
<1>1. PICK S : S = {k \in 0 .. n : (\A i \in 1 .. k : d[i] <= w[k])
                                   /\ (w[k] = 0 \/ \E i \in 1 .. k : d[i] = w[k])}
  OBVIOUS
<1>2. 0 \in S
  BY <1>1
<1>3. ASSUME NEW k \in 1 .. n, k - 1 \in S PROVE k \in S
  <2>1. /\ \A i \in 1 .. k - 1 : d[i] <= w[k - 1]
        /\ w[k - 1] = 0 \/ \E i \in 1 .. k - 1 : d[i] = w[k - 1]
    BY <1>1, <1>3
  <2>2. w[k] = Larger(w[k - 1], d[k])
    OBVIOUS
  <2>3. /\ k \in 0 .. n /\ k \in 1 .. k /\ k - 1 \in 0 .. n
        /\ d[k] \in Int /\ w[k] \in Int /\ w[k - 1] \in Int
    OBVIOUS
  <2>4. w[k - 1] <= w[k] /\ d[k] <= w[k] /\ (w[k] = w[k - 1] \/ w[k] = d[k])
    BY <2>2, <2>3 DEF Larger
  <2>5. ASSUME NEW i \in 1 .. k PROVE d[i] <= w[k]
    <3>1. CASE i = k
      BY <2>4, <3>1
    <3>2. CASE i # k
      <4>1. i \in 1 .. k - 1 /\ d[i] \in Int
        BY <3>2
      <4>2. d[i] <= w[k - 1]
        BY <2>1, <4>1
      <4> QED
        BY <2>3, <2>4, <4>1, <4>2
    <3> QED
      BY <3>1, <3>2
  <2>6. w[k] = 0 \/ \E i \in 1 .. k : d[i] = w[k]
    <3>1. \A i \in 1 .. k - 1 : i \in 1 .. k
      OBVIOUS
    <3> QED
      BY <2>1, <2>3, <2>4, <3>1
  <2> QED
    BY <1>1, <2>3, <2>5, <2>6
<1>4. \A k \in 0 + 1 .. n : k - 1 \in S => k \in S
  BY <1>3
<1>5. n \in Int /\ 0 \in Int /\ n \in 0 .. n
  OBVIOUS
<1>6. \A k \in 0 .. n : k \in S
  BY <1>2, <1>4, <1>5, IntervalInduction, Zenon
<1> QED
  BY <1>1, <1>5, <1>6

(* rolling_drawdown reaches a limit exactly when some stretch of its       *)
(* outcomes loses that much.                                               *)
LEMMA DrawdownIsWorstStretch ==
    ASSUME NEW s \in Seq(Int)
    PROVE  RollingDrawdown(s) >= Limit <=>
              \E i \in 1 .. Len(s) : \E j \in i .. Len(s) : Total(s, i, j) <= - Limit
<1>1. PICK c, p, w :
         /\ IsCurve(c, s)
         /\ p \in [0 .. Len(s) -> Int] /\ w \in [0 .. Len(s) -> Int]
         /\ p[0] = 0 /\ w[0] = 0
         /\ \A i \in 1 .. Len(s) :
               p[i] = Larger(p[i - 1], c[i]) /\ w[i] = Larger(w[i - 1], p[i] - c[i])
         /\ RollingDrawdown(s) = w[Len(s)]
  BY DrawdownCurves
<1>2. PICK n \in Nat : n = Len(s)
  OBVIOUS
<1>3. c \in [0 .. n -> Int] /\ c[0] = 0
  BY <1>1, <1>2 DEF IsCurve
<1>4. \A k \in 0 .. n :
         (\A i \in 0 .. k : c[i] <= p[k]) /\ \E i \in 0 .. k : c[i] = p[k]
  <2>1. \A i \in 1 .. n : p[i] = Larger(p[i - 1], c[i])
    BY <1>1, <1>2
  <2> QED
    BY <1>1, <1>2, <1>3, <2>1, RunningPeak, Zenon
<1>5. PICK d : d = [i \in 1 .. n |-> p[i] - c[i]]
  OBVIOUS
<1>6. d \in [1 .. n -> Int]
  BY <1>1, <1>2, <1>3, <1>5
<1>7. (\A i \in 1 .. n : d[i] <= w[n]) /\ (w[n] = 0 \/ \E i \in 1 .. n : d[i] = w[n])
  <2>1. \A i \in 1 .. n : w[i] = Larger(w[i - 1], d[i])
    BY <1>1, <1>2, <1>5
  <2> QED
    BY <1>1, <1>2, <1>6, <2>1, RunningWorst, Zenon
<1>8. Limit \in Nat /\ Limit > 0 /\ w[n] \in Int
  BY <1>1, <1>2, BreakerAssumption
<1>9. ASSUME w[n] >= Limit
      PROVE  \E i \in 1 .. n : \E j \in i .. n : Total(s, i, j) <= - Limit
  <2>1. PICK j \in 1 .. n : d[j] = w[n]
    BY <1>7, <1>8, <1>9
  <2>2. j \in 0 .. n /\ c[j] \in Int /\ p[j] \in Int /\ d[j] = p[j] - c[j]
    BY <1>1, <1>2, <1>3, <1>5
  <2>3. PICK i \in 0 .. j : c[i] = p[j]
    BY <1>4, <2>2
  <2>4. c[i] - c[j] >= Limit
    BY <1>9, <2>1, <2>2, <2>3
  <2>5. i # j
    BY <1>8, <2>2, <2>4
  <2>6. i + 1 \in 1 .. n /\ j \in i + 1 .. n /\ (i + 1) - 1 = i
    BY <2>5
  <2>7. Total(s, i + 1, j) = c[j] - c[i]
    BY <1>1, <1>2, <2>6, TotalIsDifference
  <2>8. c[i] \in Int
    BY <1>3, <2>2, <2>3
  <2>9. Total(s, i + 1, j) <= - Limit
    BY <1>8, <2>2, <2>4, <2>7, <2>8
  <2> QED
    BY <2>6, <2>9
<1>10. ASSUME NEW i \in 1 .. n, NEW j \in i .. n, Total(s, i, j) <= - Limit
       PROVE  w[n] >= Limit
  <2>1. Total(s, i, j) = c[j] - c[i - 1]
    BY <1>1, <1>2, TotalIsDifference
  <2>2. j \in 1 .. n /\ j \in 0 .. n /\ i - 1 \in 0 .. j /\ i - 1 \in 0 .. n
    OBVIOUS
  <2>3. c[i - 1] \in Int /\ c[j] \in Int /\ p[j] \in Int
    BY <1>1, <1>2, <1>3, <2>2
  <2>4. c[i - 1] <= p[j]
    BY <1>4, <2>2
  <2>5. p[j] - c[j] <= w[n]
    BY <1>5, <1>7, <2>2
  <2> QED
    BY <1>8, <1>10, <2>1, <2>3, <2>4, <2>5
<1> QED
  BY <1>1, <1>2, <1>9, <1>10

(* The curve of a stretch that starts after off outcomes. *)
LEMMA CurveShift ==
    ASSUME NEW m \in Nat, NEW n \in Nat, NEW off \in Nat, n + off <= m,
           NEW c \in [0 .. m -> Int]
    PROVE  \E d \in [0 .. n -> Int] :
              /\ d[0] = 0
              /\ \A k \in 0 .. n : d[k] + c[off] = c[k + off]
<1>1. PICK e : e = [k \in 0 .. n |-> c[k + off]]
  OBVIOUS
<1>2. e \in [0 .. n -> Int]
  BY <1>1
<1>3. 0 \in 0 .. n /\ 0 + off = off
  OBVIOUS
<1>4. e[0] = c[off]
  BY <1>1, <1>3
<1>5. PICK d : d = [k \in 0 .. n |-> e[k] - e[0]]
  OBVIOUS
<1>6. d \in [0 .. n -> Int] /\ d[0] = 0 /\ \A k \in 0 .. n : d[k] + e[0] = e[k]
  BY <1>2, <1>5
<1>7. \A k \in 0 .. n : d[k] + c[off] = c[k + off]
  BY <1>1, <1>4, <1>6
<1> QED
  BY <1>6, <1>7, Zenon

(* The totals of a stretch of the outcomes are those of the whole. *)
LEMMA TotalShift ==
    ASSUME NEW t \in Seq(Int), NEW w \in Seq(Int), NEW off \in Nat,
           Len(w) + off <= Len(t), \A k \in 1 .. Len(w) : w[k] = t[k + off],
           NEW i \in 1 .. Len(w), NEW j \in i .. Len(w)
    PROVE  Total(w, i, j) = Total(t, i + off, j + off)
<1>1. PICK c : IsCurve(c, t)
  BY DrawdownCurves
<1>2. PICK n \in Nat, m \in Nat : n = Len(w) /\ m = Len(t)
  OBVIOUS
<1>3. /\ c \in [0 .. m -> Int] /\ \A k \in 1 .. m : c[k] = c[k - 1] + t[k]
      /\ n + off <= m
  BY <1>1, <1>2 DEF IsCurve
<1>4. PICK d \in [0 .. n -> Int] :
         d[0] = 0 /\ \A k \in 0 .. n : d[k] + c[off] = c[k + off]
  BY <1>3, CurveShift, Zenon
<1>5. PICK z \in Int : z = c[off]
  <2>1. off \in 0 .. m
    BY <1>3
  <2> QED
    BY <1>3, <2>1
<1>6. ASSUME NEW k \in 1 .. n PROVE d[k] = d[k - 1] + w[k]
  <2>1. /\ k \in 0 .. n /\ k - 1 \in 0 .. n /\ k + off \in 1 .. m
        /\ (k + off) - 1 = (k - 1) + off
    BY <1>3
  <2>2. PICK u \in Int, v \in Int, x \in Int : u = d[k] /\ v = d[k - 1] /\ x = t[k + off]
    <3>1. d[k] \in Int /\ d[k - 1] \in Int
      BY <1>4, <2>1
    <3>2. t[k + off] \in Int
      BY <1>2, <2>1
    <3> QED
      BY <3>1, <3>2, Zenon
  <2>3. u + z = c[k + off] /\ v + z = c[(k - 1) + off]
    BY <1>4, <1>5, <2>1, <2>2
  <2>4. c[k + off] = c[(k - 1) + off] + x
    BY <1>3, <2>1, <2>2
  <2>5. u = v + x
    <3>1. u + z = (v + z) + x
      BY <2>3, <2>4, Zenon
    <3> QED
      BY <3>1
  <2>6. w[k] = x
    BY <1>2, <2>2
  <2> QED
    BY <2>2, <2>5, <2>6
<1>7. IsCurve(d, w)
  BY <1>2, <1>4, <1>6 DEF IsCurve
<1>8. Total(w, i, j) = d[j] - d[i - 1]
  BY <1>7, TotalIsDifference
<1>9. /\ i + off \in 1 .. Len(t) /\ j + off \in i + off .. Len(t)
      /\ (i + off) - 1 = (i - 1) + off
      /\ j \in 0 .. n /\ i - 1 \in 0 .. n
  <2>1. /\ i \in Int /\ j \in Int /\ off \in Int /\ n \in Int /\ m \in Int
        /\ 1 <= i /\ i <= j /\ j <= n /\ n + off <= m /\ 0 <= off /\ Len(t) = m
    BY <1>2
  <2>2. i + off \in 1 .. m /\ j + off \in i + off .. m
    BY <2>1
  <2>3. (i + off) - 1 = (i - 1) + off
    BY <2>1
  <2>4. j \in 0 .. n /\ i - 1 \in 0 .. n
    BY <2>1
  <2> QED
    BY <2>1, <2>2, <2>3, <2>4
<1>10. Total(t, i + off, j + off) = c[j + off] - c[(i - 1) + off]
  BY <1>1, <1>9, TotalIsDifference
<1>11. PICK u \in Int, v \in Int : u = d[j] /\ v = d[i - 1]
  BY <1>9
<1>12. c[j + off] = u + z /\ c[(i - 1) + off] = v + z
  BY <1>4, <1>5, <1>9, <1>11
<1>13. (u + z) - (v + z) = u - v
  OBVIOUS
<1> QED
  BY <1>8, <1>10, <1>11, <1>12, <1>13

(* An earlier breach is one for ever. *)
LEMMA BreachesPrefix ==
    ASSUME NEW s \in Seq(Int), NEW x \in Int, NEW n \in 1 .. Len(s)
    PROVE  BreachesAt(Append(s, x), n) <=> BreachesAt(s, n)
<1>1. PICK t \in Seq(Int) : t = Append(s, x)
  <2>1. Append(s, x) \in Seq(Int)
    OBVIOUS
  <2> QED
    BY <2>1, Zenon
<1>2. Len(t) = Len(s) + 1 /\ Len(s) \in Nat /\ \A k \in 1 .. Len(s) : t[k] = s[k]
  BY <1>1
<1>3. \A k \in n - MaxLosses + 1 .. n : n >= MaxLosses => t[k] = s[k]
  <2> SUFFICES ASSUME NEW k \in n - MaxLosses + 1 .. n, n >= MaxLosses PROVE t[k] = s[k]
    OBVIOUS
  <2>1. k \in 1 .. Len(s)
    BY <1>2, BreakerAssumption
  <2> QED
    BY <1>2, <2>1
<1>4. ASSUME NEW i \in Larger(1, n - Window + 1) .. n, NEW j \in i .. n
      PROVE  Total(s, i, j) = Total(t, i, j)
  <2>1. i \in 1 .. Len(s) /\ j \in i .. Len(s) /\ i + 0 = i /\ j + 0 = j
    <3>1. Window \in Int /\ n \in Int /\ n <= Len(s) /\ Len(s) \in Nat
      BY BreakerAssumption
    <3>2. Larger(1, n - Window + 1) \in Int /\ 1 <= Larger(1, n - Window + 1)
      BY <3>1 DEF Larger
    <3>3. i \in Int /\ 1 <= i /\ i <= n /\ j \in Int /\ i <= j /\ j <= n
      BY <3>1, <3>2
    <3> QED
      BY <3>1, <3>3
  <2>2. \A k \in 1 .. Len(s) : s[k] = t[k + 0]
    <3>1. \A k \in 1 .. Len(s) : k + 0 = k
      BY <1>2
    <3>2. \A k \in 1 .. Len(s) : t[k] = s[k]
      BY <1>2
    <3> QED
      BY <3>1, <3>2, Zenon
  <2>3. Len(s) + 0 <= Len(t)
    BY <1>2
  <2>4. Total(s, i, j) = Total(t, i + 0, j + 0)
    BY <2>1, <2>2, <2>3, TotalShift
  <2> QED
    BY <2>1, <2>4
<1>5. (n >= MaxLosses /\ \A k \in n - MaxLosses + 1 .. n : s[k] < 0) <=>
      (n >= MaxLosses /\ \A k \in n - MaxLosses + 1 .. n : t[k] < 0)
  BY <1>3
<1>6. (\E i \in Larger(1, n - Window + 1) .. n : \E j \in i .. n : Total(s, i, j) <= - Limit) <=>
      (\E i \in Larger(1, n - Window + 1) .. n : \E j \in i .. n : Total(t, i, j) <= - Limit)
  BY <1>4
<1> QED
  BY <1>1, <1>5, <1>6 DEF BreachesAt

(* n is the length of the run of losses at the end of s. *)
LossRun(s, n) ==
    /\ n \in 0 .. Len(s)
    /\ \A i \in Len(s) - n + 1 .. Len(s) : s[i] < 0
    /\ n < Len(s) => ~ (s[Len(s) - n] < 0)

LEMMA LossRunStep ==
    ASSUME NEW s \in Seq(Int), NEW n, LossRun(s, n), NEW x \in Int
    PROVE  LossRun(Append(s, x), NextLosses(n, x))
<1>1. PICK t \in Seq(Int) : t = Append(s, x)
  <2>1. Append(s, x) \in Seq(Int)
    OBVIOUS
  <2> QED
    BY <2>1, Zenon
<1>2. /\ Len(t) = Len(s) + 1 /\ Len(s) \in Nat /\ t[Len(s) + 1] = x
      /\ \A k \in 1 .. Len(s) : t[k] = s[k]
  BY <1>1
<1>3. CASE x < 0
  <2>1. NextLosses(n, x) = n + 1 /\ n \in 0 .. Len(s)
    BY <1>3 DEF NextLosses, LossRun
  <2>2. ASSUME NEW i \in Len(t) - (n + 1) + 1 .. Len(t) PROVE t[i] < 0
    <3>1. CASE i = Len(t)
      BY <1>2, <1>3, <3>1
    <3>2. CASE i # Len(t)
      <4>1. i \in Len(s) - n + 1 .. Len(s) /\ i \in 1 .. Len(s)
        BY <1>2, <2>1, <3>2
      <4> QED
        BY <1>2, <4>1 DEF LossRun
    <3> QED
      BY <3>1, <3>2
  <2>3. ASSUME n + 1 < Len(t) PROVE ~ (t[Len(t) - (n + 1)] < 0)
    <3>1. Len(t) - (n + 1) = Len(s) - n /\ n < Len(s) /\ Len(s) - n \in 1 .. Len(s)
      BY <1>2, <2>1, <2>3
    <3> QED
      BY <1>2, <3>1 DEF LossRun
  <2> QED
    BY <1>1, <1>2, <2>1, <2>2, <2>3 DEF LossRun
<1>4. CASE ~ (x < 0)
  <2>1. NextLosses(n, x) = 0
    BY <1>4 DEF NextLosses
  <2>2. \A i \in Len(t) - 0 + 1 .. Len(t) : t[i] < 0
    BY <1>2
  <2> QED
    BY <1>1, <1>2, <1>4, <2>1, <2>2 DEF LossRun
<1> QED
  BY <1>3, <1>4

LEMMA LossRunReaches ==
    ASSUME NEW s \in Seq(Int), NEW n, LossRun(s, n)
    PROVE  n >= MaxLosses <=>
              Len(s) >= MaxLosses /\ \A i \in Len(s) - MaxLosses + 1 .. Len(s) : s[i] < 0
<1>1. n \in 0 .. Len(s) /\ Len(s) \in Nat /\ MaxLosses \in Nat \ {0}
  BY BreakerAssumption DEF LossRun
<1>2. ASSUME n >= MaxLosses
      PROVE  Len(s) >= MaxLosses /\ \A i \in Len(s) - MaxLosses + 1 .. Len(s) : s[i] < 0
  <2>1. \A i \in Len(s) - MaxLosses + 1 .. Len(s) : i \in Len(s) - n + 1 .. Len(s)
    BY <1>1, <1>2
  <2> QED
    BY <1>1, <1>2, <2>1 DEF LossRun
<1>3. ASSUME ~ (n >= MaxLosses), Len(s) >= MaxLosses
      PROVE  ~ \A i \in Len(s) - MaxLosses + 1 .. Len(s) : s[i] < 0
  <2>1. Len(s) - n \in Len(s) - MaxLosses + 1 .. Len(s) /\ n < Len(s)
    BY <1>1, <1>3
  <2> QED
    BY <2>1 DEF LossRun
<1> QED
  BY <1>2, <1>3

LEMMA TrimmedFull ==
    ASSUME NEW t \in Seq(Int), Len(t) > Window
    PROVE  /\ Trimmed(t, Window) \in Seq(Int) /\ Len(Trimmed(t, Window)) = Window
           /\ \A k \in 1 .. Window : Trimmed(t, Window)[k] = t[k + (Len(t) - Window)]
<1>1. Window \in Nat \ {0} /\ Len(t) \in Nat
  BY BreakerAssumption
<1>2. PICK w : w = SubSeq(t, Len(t) - Window + 1, Len(t))
  OBVIOUS
<1>3. /\ w \in Seq(Int) /\ Len(w) = Window
      /\ \A k \in 1 .. Window : w[k] = t[k + (Len(t) - Window)]
  BY <1>1, <1>2
<1>4. Trimmed(t, Window) = w
  BY <1>2 DEF Trimmed
<1> QED
  BY <1>3, <1>4

(* Trimming the window before a new outcome loses nothing. *)
LEMMA TrimmedStep ==
    ASSUME NEW s \in Seq(Int), NEW x \in Int
    PROVE  Trimmed(Append(Trimmed(s, Window), x), Window) = Trimmed(Append(s, x), Window)
<1>1. Window \in Nat \ {0} /\ Len(s) \in Nat
  BY BreakerAssumption
<1>2. CASE Len(s) > Window
  <2>1. PICK w : w = SubSeq(s, Len(s) - Window + 1, Len(s))
    OBVIOUS
  <2>2. /\ w \in Seq(Int) /\ Len(w) = Window
        /\ \A k \in 1 .. Window : w[k] = s[k + (Len(s) - Window)]
    BY <1>1, <1>2, <2>1
  <2>3. Trimmed(s, Window) = w
    BY <1>2, <2>1 DEF Trimmed
  <2>4. PICK a, b : a = Append(w, x) /\ b = Append(s, x)
    OBVIOUS
  <2>5. /\ a \in Seq(Int) /\ Len(a) = Window + 1 /\ b \in Seq(Int) /\ Len(b) = Len(s) + 1
        /\ \A k \in 1 .. Window + 1 : a[k] = IF k = Window + 1 THEN x ELSE w[k]
        /\ \A k \in 1 .. Len(s) + 1 : b[k] = IF k = Len(s) + 1 THEN x ELSE s[k]
    BY <1>1, <2>2, <2>4
  <2>6. PICK u \in Seq(Int), v \in Seq(Int) :
           /\ u = Trimmed(a, Window) /\ v = Trimmed(b, Window)
           /\ Len(u) = Window /\ Len(v) = Window
           /\ \A k \in 1 .. Window : u[k] = a[k + (Len(a) - Window)]
           /\ \A k \in 1 .. Window : v[k] = b[k + (Len(b) - Window)]
    <3>1. Len(a) > Window /\ Len(b) > Window
      BY <1>1, <1>2, <2>5
    <3> QED
      BY <2>5, <3>1, TrimmedFull, Zenon
  <2>7. \A k \in 1 .. Window : a[k + 1] = b[k + (Len(s) + 1 - Window)]
    <3> SUFFICES ASSUME NEW k \in 1 .. Window
                 PROVE  a[k + 1] = b[k + (Len(s) + 1 - Window)]
      OBVIOUS
    <3>1. CASE k = Window
      <4>1. /\ k + 1 = Window + 1 /\ k + (Len(s) + 1 - Window) = Len(s) + 1
            /\ k + 1 \in 1 .. Window + 1 /\ Len(s) + 1 \in 1 .. Len(s) + 1
        BY <1>1, <3>1
      <4> QED
        BY <2>5, <4>1
    <3>2. CASE k # Window
      <4>1. /\ k + 1 \in 1 .. Window /\ k + 1 \in 1 .. Window + 1 /\ k + 1 # Window + 1
            /\ (k + 1) + (Len(s) - Window) = k + (Len(s) + 1 - Window)
            /\ k + (Len(s) + 1 - Window) \in 1 .. Len(s) + 1
            /\ k + (Len(s) + 1 - Window) # Len(s) + 1
        BY <1>1, <1>2, <3>2
      <4>2. a[k + 1] = w[k + 1] /\ w[k + 1] = s[(k + 1) + (Len(s) - Window)]
        BY <2>2, <2>5, <4>1
      <4>3. b[k + (Len(s) + 1 - Window)] = s[k + (Len(s) + 1 - Window)]
        BY <2>5, <4>1
      <4> QED
        BY <4>1, <4>2, <4>3
    <3> QED
      BY <3>1, <3>2
  <2>8. \A k \in 1 .. Window : u[k] = v[k]
    <3>1. Len(a) - Window = 1 /\ Len(b) - Window = Len(s) + 1 - Window
      BY <1>1, <2>5
    <3> QED
      BY <2>6, <2>7, <3>1
  <2>9. u = v
    BY <2>6, <2>8
  <2> QED
    BY <2>3, <2>4, <2>6, <2>9
<1>3. CASE ~ (Len(s) > Window)
  BY <1>3 DEF Trimmed
<1> QED
  BY <1>2, <1>3

(* What record_closed_trade tests, on its window and its count, is the     *)
(* policy at the last outcome.                                             *)
LEMMA BreachedNow ==
    ASSUME NEW t \in Seq(Int), NEW n, LossRun(t, n)
    PROVE  Breached(Trimmed(t, Window), n) <=> BreachesAt(t, Len(t))
<1>1. PICK w : w = Trimmed(t, Window)
  OBVIOUS
<1>2. Window \in Nat \ {0} /\ Len(t) \in Nat
  BY BreakerAssumption
<1>3. w \in Seq(Int) /\ Len(w) \in Nat
      /\ \E off \in Nat :
            /\ Len(t) = Len(w) + off
            /\ \A k \in 1 .. Len(w) : w[k] = t[k + off]
            /\ Larger(1, Len(t) - Window + 1) = off + 1
  <2>1. CASE Len(t) > Window
    <3>1. /\ w \in Seq(Int) /\ Len(w) = Window
          /\ \A k \in 1 .. Len(w) : w[k] = t[k + (Len(t) - Window)]
      BY <1>1, <2>1, TrimmedFull
    <3>2. /\ Len(t) - Window \in Nat /\ Len(t) = Len(w) + (Len(t) - Window)
          /\ Larger(1, Len(t) - Window + 1) = (Len(t) - Window) + 1
      BY <1>2, <2>1, <3>1 DEF Larger
    <3> QED
      BY <1>2, <3>1, <3>2
  <2>2. CASE ~ (Len(t) > Window)
    <3>1. w = t
      BY <1>1, <2>2 DEF Trimmed
    <3>2. Len(t) = Len(t) + 0 /\ Larger(1, Len(t) - Window + 1) = 0 + 1 /\ 0 \in Nat
      BY <1>2, <2>2 DEF Larger
    <3>3. \A k \in 1 .. Len(t) : t[k] = t[k + 0]
      OBVIOUS
    <3> QED
      BY <1>2, <3>1, <3>2, <3>3
  <2> QED
    BY <2>1, <2>2
<1>4. PICK off \in Nat :
         /\ Len(t) = Len(w) + off
         /\ \A k \in 1 .. Len(w) : w[k] = t[k + off]
         /\ Larger(1, Len(t) - Window + 1) = off + 1
  BY <1>3
<1>5. RollingDrawdown(w) >= Limit <=>
         \E i \in 1 .. Len(w) : \E j \in i .. Len(w) : Total(w, i, j) <= - Limit
  BY <1>3, DrawdownIsWorstStretch
<1>6. \A i \in 1 .. Len(w) : \A j \in i .. Len(w) :
         Total(w, i, j) = Total(t, i + off, j + off)
  <2>1. Len(w) + off <= Len(t)
    BY <1>2, <1>3, <1>4
  <2> QED
    BY <1>3, <1>4, <2>1, TotalShift, Zenon
<1>7. ASSUME NEW i \in 1 .. Len(w), NEW j \in i .. Len(w), Total(w, i, j) <= - Limit
      PROVE  \E i1 \in off + 1 .. Len(t) : \E j1 \in i1 .. Len(t) : Total(t, i1, j1) <= - Limit
  <2>1. i + off \in off + 1 .. Len(t) /\ j + off \in i + off .. Len(t)
    <3>1. Len(w) \in Nat /\ Len(t) = Len(w) + off
      BY <1>3, <1>4, Zenon
    <3> QED
      BY <3>1
  <2>2. Total(t, i + off, j + off) <= - Limit
    BY <1>6, <1>7
  <2> QED
    BY <2>1, <2>2
<1>8. ASSUME NEW i \in off + 1 .. Len(t), NEW j \in i .. Len(t), Total(t, i, j) <= - Limit
      PROVE  \E i1 \in 1 .. Len(w) : \E j1 \in i1 .. Len(w) : Total(w, i1, j1) <= - Limit
  <2>1. /\ i - off \in 1 .. Len(w) /\ j - off \in i - off .. Len(w)
        /\ (i - off) + off = i /\ (j - off) + off = j
    <3>1. Len(w) \in Nat /\ Len(t) = Len(w) + off
      BY <1>3, <1>4, Zenon
    <3> QED
      BY <3>1
  <2>2. Total(w, i - off, j - off) = Total(t, i, j)
    BY <1>6, <2>1
  <2> QED
    BY <1>8, <2>1, <2>2
<1>9. RollingDrawdown(w) >= Limit <=>
         \E i \in off + 1 .. Len(t) : \E j \in i .. Len(t) : Total(t, i, j) <= - Limit
  BY <1>5, <1>7, <1>8
<1>10. n >= MaxLosses <=>
          Len(t) >= MaxLosses /\ \A i \in Len(t) - MaxLosses + 1 .. Len(t) : t[i] < 0
  BY LossRunReaches
<1> QED
  BY <1>1, <1>4, <1>9, <1>10 DEF Breached, BreachesAt

-----------------------------------------------------------------------------
(* The window and the count are those of all the outcomes since the last   *)
(* reset, and the trip is what the policy says of them.                    *)
FollowsPolicy(window, count, at, outcomes) ==
    /\ outcomes \in Seq(Int)
    /\ window = Trimmed(outcomes, Window)
    /\ LossRun(outcomes, count)
    /\ at # Untripped <=> \E n \in 1 .. Len(outcomes) : BreachesAt(outcomes, n)

(* TrippedOnPolicy is not inductive: it needs the same of the checkpoint.  *)
PolicyInv ==
    /\ FollowsPolicy(trades, losses, trippedAt, since)
    /\ FollowsPolicy(stored.trades, stored.losses, stored.trippedAt, stored.since)

LEMMA FreshFollows == FollowsPolicy(<<>>, 0, Untripped, <<>>)
<1>1. <<>> \in Seq(Int) /\ Len(<<>>) = 0
  OBVIOUS
<1>2. Trimmed(<<>>, Window) = <<>>
  BY <1>1, BreakerAssumption DEF Trimmed
<1>3. LossRun(<<>>, 0)
  BY <1>1 DEF LossRun
<1> QED
  BY <1>1, <1>2, <1>3 DEF FollowsPolicy

LEMMA RecordFollows ==
    ASSUME PolicyInv, NEW pnl \in Outcomes, NEW at \in Nat, RecordClosedTrade(pnl, at)
    PROVE  FollowsPolicy(trades', losses', trippedAt', since')
<1>1. /\ since \in Seq(Int) /\ trades = Trimmed(since, Window) /\ LossRun(since, losses)
      /\ trippedAt # Untripped <=> \E n \in 1 .. Len(since) : BreachesAt(since, n)
  BY DEF PolicyInv, FollowsPolicy
<1>2. pnl \in Int
  BY BreakerAssumption
<1>3. /\ trades' = Trimmed(Append(trades, pnl), Window)
      /\ losses' = NextLosses(losses, pnl)
      /\ since' = Append(since, pnl)
      /\ trippedAt' = IF trippedAt # Untripped THEN trippedAt
                      ELSE IF Breached(trades', losses') THEN at ELSE Untripped
  BY DEF RecordClosedTrade, NextTrippedAt
<1>4. since' \in Seq(Int) /\ Len(since') = Len(since) + 1 /\ Len(since) \in Nat
  BY <1>1, <1>2, <1>3
<1>5. trades' = Trimmed(since', Window)
  BY <1>1, <1>2, <1>3, TrimmedStep
<1>6. LossRun(since', losses')
  BY <1>1, <1>2, <1>3, LossRunStep
<1>7. Breached(trades', losses') <=> BreachesAt(since', Len(since'))
  BY <1>4, <1>5, <1>6, BreachedNow
<1>8. \A n \in 1 .. Len(since) : BreachesAt(since', n) <=> BreachesAt(since, n)
  BY <1>1, <1>2, <1>3, BreachesPrefix
<1>9. (\E n \in 1 .. Len(since') : BreachesAt(since', n)) <=>
      (\E n \in 1 .. Len(since) : BreachesAt(since, n)) \/ BreachesAt(since', Len(since'))
  <2>1. \A n : n \in 1 .. Len(since') <=> n \in 1 .. Len(since) \/ n = Len(since')
    BY <1>4
  <2> QED
    BY <1>8, <2>1
<1>10. at # Untripped
  BY DEF Untripped
<1>11. trippedAt' # Untripped <=> trippedAt # Untripped \/ Breached(trades', losses')
  BY <1>3, <1>10
<1> QED
  BY <1>1, <1>4, <1>5, <1>6, <1>7, <1>9, <1>11 DEF FollowsPolicy

LEMMA PolicyStep ==
    ASSUME clock \in Nat, PolicyInv, [BreakerNext]_breakerVars
    PROVE  PolicyInv'
<1>1. ASSUME NEW pnl \in Outcomes, NEW at \in Nat, RecordClosedTrade(pnl, at)
      PROVE  PolicyInv'
  BY <1>1, RecordFollows DEF PolicyInv, RecordClosedTrade
<1>2. CASE RecordReducingFill
  BY <1>1, <1>2 DEF RecordReducingFill
<1>3. CASE RecordLedgerClose
  <2>1. PICK pnl \in Outcomes, at \in 0 .. clock : RecordClosedTrade(pnl, at)
    BY <1>3 DEF RecordLedgerClose
  <2> QED
    BY <1>1, <2>1
<1>4. CASE Reset
  BY <1>4, FreshFollows DEF Reset, PolicyInv
<1>5. CASE Export
  BY <1>5 DEF Export, PolicyInv
<1>6. CASE Load
  BY <1>6 DEF Load, PolicyInv
<1>7. CASE Crash \/ Tick \/ UNCHANGED breakerVars
  BY <1>7 DEF Crash, Tick, breakerVars, PolicyInv
<1> QED
  BY <1>2, <1>3, <1>4, <1>5, <1>6, <1>7 DEF BreakerNext

(***************************************************************************)
(* The strategy is suspended exactly when its outcomes since the last      *)
(* reset breached the policy: for every sequence of outcomes, the one pass *)
(* of rolling_drawdown over a trimmed window finds the stretches that lose *)
(* Limit, the running count finds the runs of losses, and a restart takes  *)
(* both up from the checkpoint without losing any (record_closed_trade,    *)
(* export, load).                                                          *)
(***************************************************************************)
THEOREM TrippedExactlyOnPolicy == BreakerSpec => []TrippedOnPolicy
<1>1. BreakerInit => PolicyInv
  BY FreshFollows DEF BreakerInit, Fresh, PolicyInv
<1>2. BreakerInv /\ PolicyInv /\ [BreakerNext]_breakerVars => PolicyInv'
  BY PolicyStep DEF BreakerInv, BreakerTypeOK
<1>3. PolicyInv => TrippedOnPolicy
  BY DEF PolicyInv, FollowsPolicy, TrippedOnPolicy
<1> QED
  BY <1>1, <1>2, <1>3, BreakerInvariance, PTL DEF BreakerSpec

-----------------------------------------------------------------------------
(***************************************************************************)
(* The audit trail.                                                        *)
(***************************************************************************)
(* The types of the lines a record adds. *)
LEMMA LineTypes ==
    /\ \A ended \in BOOLEAN : Unreadable(ended) \in Line
    /\ \A line \in Line : [line EXCEPT !.ended = FALSE] \in Line
  BY DEF Unreadable, Line

(* The record about to be written is a line, and the resumed head a head. *)
LEMMA NextRecordType ==
    ASSUME TrailTypeOK, ~ ResumeRaises
    PROVE  /\ ResumedHead \in [seq : Nat \cup {-1}, hash : Nat]
           /\ NextRecord \in Line
           /\ NextRecord.seq = ResumedHead.seq + 1
           /\ NextRecord.prev = ResumedHead.hash
           /\ NextRecord.kind = "record"
           /\ NextRecord.ended
<1>1. lines # <<>> => LastLine \in Line
  BY DEF TrailTypeOK, LastLine
<1>2. ResumedHead \in [seq : Nat \cup {-1}, hash : Nat]
  BY <1>1 DEF ResumedHead, TrailTypeOK, Line
<1> QED
  BY <1>2 DEF NextRecord, Line, TrailTypeOK

(* An append, whole or cut short, leaves a sequence of lines. *)
LEMMA WriteTypes ==
    ASSUME TrailTypeOK, NEW line \in Line
    PROVE  Written(line) \in Seq(Line) /\ Torn(line) \subseteq Seq(Line)
<1>1. ASSUME NEW l \in Line
      PROVE  /\ Append(lines, l) \in Seq(Line)
             /\ EndsOpen => [lines EXCEPT ![Len(lines)] = l] \in Seq(Line)
  <2>1. Append(lines, l) \in Seq(Line)
    BY DEF TrailTypeOK
  <2>2. lines # <<>> => [lines EXCEPT ![Len(lines)] = l] \in Seq(Line)
    BY DEF TrailTypeOK
  <2> QED
    BY <2>1, <2>2 DEF EndsOpen
<1>2. Unreadable(TRUE) \in Line /\ Unreadable(FALSE) \in Line
  BY LineTypes
<1>3. [line EXCEPT !.ended = FALSE] \in Line
  BY LineTypes, Zenon
<1>4. Written(line) \in Seq(Line)
  BY <1>1, <1>2 DEF Written
<1>5. CASE EndsOpen
  BY <1>1, <1>2, <1>4, <1>5 DEF Torn
<1>6. CASE ~ EndsOpen
  <2> DEFINE cut == [line EXCEPT !.ended = FALSE]
  <2>1. cut \in Line
    BY <1>3
  <2>2. Torn(line) = {Append(lines, Unreadable(FALSE)), Append(lines, cut)}
    BY <1>6, Zenon DEF Torn
  <2> HIDE DEF cut
  <2> QED
    BY <1>1, <1>2, <1>4, <2>1, <2>2
<1> QED
  BY <1>5, <1>6

(* Type correctness is inductive. *)
LEMMA TrailTypeStep == TrailTypeOK /\ [TrailNext]_vars => TrailTypeOK'
<1> SUFFICES ASSUME TrailTypeOK, [TrailNext]_vars PROVE TrailTypeOK'
  OBVIOUS
<1> USE TrailAssumption
<1>1. ASSUME NEW enabled \in Anchoring, NEW reached \in SUBSET (Sinks \ broken),
             Start(enabled, reached)
      PROVE  TrailTypeOK'
  BY <1>1 DEF TrailTypeOK, Start, NoHead, Genesis, Stopped, Running
<1>2. CASE RecordUnresumed
  BY <1>2 DEF TrailTypeOK, RecordUnresumed, publication, history
<1>3. CASE Record
  <2>1. /\ NextRecord \in Line /\ NextRecord.seq \in Nat /\ NextRecord.hash \in Nat
        /\ Written(NextRecord) \in Seq(Line)
    BY <1>3, NextRecordType, WriteTypes DEF Record, Recording, Line
  <2> QED
    BY <1>3, <2>1
       DEF TrailTypeOK, Record, Recording, publication, Running, EndsOpen
<1>4. CASE RecordFails
  <2>1. /\ ResumedHead \in [seq : Nat \cup {-1}, hash : Nat]
        /\ Written(NextRecord) \in Seq(Line) /\ Torn(NextRecord) \subseteq Seq(Line)
    BY <1>4, NextRecordType, WriteTypes DEF RecordFails, Recording
  <2> QED
    BY <1>4, <2>1 DEF TrailTypeOK, RecordFails, Recording, publication
<1>5. CASE RecordCrashes
  <2>1. Written(NextRecord) \in Seq(Line) /\ Torn(NextRecord) \subseteq Seq(Line)
    BY <1>5, NextRecordType, WriteTypes DEF RecordCrashes, Recording
  <2>2. damaged' \in BOOLEAN /\ lines' \in Seq(Line)
    <3>1. CASE lines' \in Torn(NextRecord) /\ damaged' = TRUE
      BY <2>1, <3>1
    <3>2. CASE lines' = Written(NextRecord) /\ UNCHANGED damaged
      BY <2>1, <3>2 DEF TrailTypeOK
    <3> QED
      BY <1>5, <3>1, <3>2 DEF RecordCrashes
  <2> QED
    BY <1>5, <2>2
       DEF TrailTypeOK, RecordCrashes, Recording, memory, publication, Stopped
<1>6. CASE BeginPublication
  <2>1. LastLine \in Line
    BY <1>6 DEF BeginPublication, EndsReadable, TrailTypeOK, LastLine
  <2> QED
    BY <1>6, <2>1
       DEF TrailTypeOK, BeginPublication, HeadAnchor, Anchor, Line, memory, history,
           Running
<1>7. CASE NothingToPublish
  BY <1>7 DEF TrailTypeOK, NothingToPublish, memory, publication, history,
              Running, Stopped
<1>8. CASE EndPublication
  BY <1>8 DEF TrailTypeOK, EndPublication, publication, history, Anchor, Running,
              Stopped
<1>9. ASSUME NEW s \in Sinks, Publish(s)
      PROVE  TrailTypeOK'
  BY <1>9 DEF TrailTypeOK, Publish, Stored, memory, history
<1>10. ASSUME NEW s \in Sinks, PublishFails(s)
       PROVE  TrailTypeOK'
  BY <1>10 DEF TrailTypeOK, PublishFails, Stored, memory, history
<1>11. CASE Stop
  BY <1>11 DEF TrailTypeOK, Stop, memory, publication, history, Running, Stopped
<1>12. CASE TrailCrash
  BY <1>12 DEF TrailTypeOK, TrailCrash, memory, publication, history, Stopped
<1>13. CASE UNCHANGED vars
  BY <1>13 DEF TrailTypeOK, vars
<1> QED
  BY <1>1, <1>2, <1>3, <1>4, <1>5, <1>6, <1>7, <1>8, <1>9, <1>10, <1>11, <1>12,
     <1>13 DEF TrailNext

-----------------------------------------------------------------------------
(* A trail that verifies ends in a record. *)
LEMMA IntactEnd ==
    ASSUME TrailTypeOK, VerifyChain
    PROVE  lines # <<>> => EndsReadable
  BY DEF TrailTypeOK, VerifyChain, EndsReadable, LastLine

(* A record that follows the last one keeps the chain intact and every     *)
(* anchor that matched.                                                    *)
LEMMA ExtendedChain ==
    ASSUME TrailTypeOK, VerifyChain, NEW r \in Line,
           r.kind = "record", r.seq = Len(lines), r.prev = HashBefore(Len(lines) + 1),
           lines' = Append(lines, r)
    PROVE  /\ VerifyChain'
           /\ HashBefore(Len(lines) + 1)' = r.hash
           /\ \A a \in Anchor : AnchorMatches(a) => AnchorMatches(a)'
<1>1. /\ Len(lines') = Len(lines) + 1 /\ Len(lines) \in Nat
      /\ lines'[Len(lines) + 1] = r
      /\ \A i \in 1 .. Len(lines) : lines'[i] = lines[i]
  BY DEF TrailTypeOK
<1>2. ASSUME NEW i \in 1 .. Len(lines')
      PROVE  /\ lines'[i].kind = "record"
             /\ lines'[i].seq = i - 1
             /\ lines'[i].prev = HashBefore(i)'
  <2>1. CASE i \in 1 .. Len(lines)
    <3>1. HashBefore(i)' = HashBefore(i)
      BY <1>1, <2>1 DEF HashBefore
    <3> QED
      BY <1>1, <2>1, <3>1 DEF VerifyChain
  <2>2. CASE i = Len(lines) + 1
    <3>1. HashBefore(i)' = HashBefore(i)
      BY <1>1, <2>2 DEF HashBefore
    <3> QED
      BY <1>1, <2>2, <3>1
  <2> QED
    BY <1>1, <2>1, <2>2
<1>3. VerifyChain'
  BY <1>2 DEF VerifyChain
<1>4. HashBefore(Len(lines) + 1)' = r.hash
  BY <1>1 DEF HashBefore
<1>5. \A a \in Anchor : AnchorMatches(a) => AnchorMatches(a)'
  BY <1>1 DEF AnchorMatches, Anchor
<1> QED
  BY <1>3, <1>4, <1>5

(* What a process about to append to a trusted trail writes. *)
LEMMA NextRecordFollows ==
    ASSUME TrailTypeOK, VerifyChain, WriterAtEnd, phase \in Running
    PROVE  /\ ~ ResumeRaises
           /\ ResumedHead.seq = Len(lines) - 1
           /\ ResumedHead.hash = HashBefore(Len(lines) + 1)
           /\ NextRecord.seq = Len(lines)
           /\ NextRecord.prev = HashBefore(Len(lines) + 1)
           /\ ~ EndsOpen => Written(NextRecord) = Append(lines, NextRecord)
<1>1. ~ ResumeRaises
  BY IntactEnd DEF ResumeRaises
<1>2. Len(lines) \in Nat /\ (lines = <<>> <=> Len(lines) = 0)
  BY DEF TrailTypeOK
<1>3. /\ ResumedHead.seq = Len(lines) - 1
      /\ ResumedHead.hash = HashBefore(Len(lines) + 1)
  <2>1. CASE resumed
    BY <2>1 DEF ResumedHead, WriterAtEnd
  <2>2. CASE ~ resumed /\ lines = <<>>
    BY <1>2, <2>2 DEF ResumedHead, WriterAtEnd, NoHead, HashBefore
  <2>3. CASE ~ resumed /\ lines # <<>>
    BY <1>2, <2>3 DEF ResumedHead, LastLine, VerifyChain, HashBefore
  <2> QED
    BY <2>1, <2>2, <2>3
<1>4. ~ EndsOpen => Written(NextRecord) = Append(lines, NextRecord)
  BY DEF Written
<1>5. NextRecord.seq = Len(lines) /\ NextRecord.prev = HashBefore(Len(lines) + 1)
  BY <1>1, <1>2, <1>3, NextRecordType
<1> QED
  BY <1>1, <1>3, <1>4, <1>5

(* The chain stays intact, and the writer at its end. *)
LEMMA ChainStep == TrailInv /\ [TrailNext]_vars => ChainInv'
<1> SUFFICES ASSUME TrailTypeOK, ChainInv, EndInv, [TrailNext]_vars, Trusted'
             PROVE  VerifyChain' /\ WriterAtEnd'
  BY DEF TrailInv, ChainInv
<1>1. ASSUME NEW enabled \in Anchoring, NEW reached \in SUBSET (Sinks \ broken),
             Start(enabled, reached)
      PROVE  VerifyChain' /\ WriterAtEnd'
  <2>1. VerifyChain' <=> VerifyChain
    BY <1>1 DEF Start, VerifyChain, HashBefore
  <2>2. VerifyChain
    <3>1. CASE ~ damaged
      BY <3>1 DEF ChainInv, Trusted
    <3>2. CASE damaged
      BY <1>1, <3>2 DEF Start, Trusted, GateAccepts, Running
    <3> QED
      BY <3>1, <3>2
  <2> QED
    BY <1>1, <2>1, <2>2 DEF Start, WriterAtEnd
<1>2. CASE Record
  <2>1. Trusted /\ phase \in Running /\ ~ EndsOpen
    BY <1>2 DEF Record, Recording, Trusted, Running, EndInv, TrailTypeOK
  <2>2. VerifyChain /\ WriterAtEnd
    BY <2>1 DEF ChainInv
  <2>3. /\ lines' = Append(lines, NextRecord) /\ NextRecord \in Line
        /\ NextRecord.kind = "record" /\ NextRecord.seq = Len(lines)
        /\ NextRecord.prev = HashBefore(Len(lines) + 1)
    BY <1>2, <2>1, <2>2, NextRecordFollows, NextRecordType DEF Record
  <2>4. VerifyChain' /\ HashBefore(Len(lines) + 1)' = NextRecord.hash
    BY <2>2, <2>3, ExtendedChain
  <2>5. Len(lines') = Len(lines) + 1 /\ Len(lines) \in Nat
    BY <2>3 DEF TrailTypeOK
  <2> QED
    BY <1>2, <2>3, <2>4, <2>5 DEF Record, WriterAtEnd
<1>3. CASE RecordFails
  <2>1. Trusted /\ phase \in Running /\ lines' = lines
    BY <1>3 DEF RecordFails, Recording, Trusted, Running, TrailTypeOK
  <2>2. VerifyChain /\ WriterAtEnd
    BY <2>1 DEF ChainInv
  <2>3. ResumedHead.seq = Len(lines) - 1 /\ ResumedHead.hash = HashBefore(Len(lines) + 1)
    BY <2>1, <2>2, NextRecordFollows
  <2>4. VerifyChain' /\ HashBefore(Len(lines) + 1)' = HashBefore(Len(lines) + 1)
    BY <2>1, <2>2 DEF VerifyChain, HashBefore
  <2> QED
    BY <1>3, <2>1, <2>3, <2>4 DEF RecordFails, WriterAtEnd
<1>4. CASE RecordCrashes
  <2>1. ~ damaged' /\ phase' \notin Running
    BY <1>4 DEF RecordCrashes, Trusted, Running
  <2>2. /\ ~ damaged /\ lines' = Written(NextRecord) /\ phase \in Running
        /\ ~ EndsOpen
    BY <1>4, <2>1 DEF RecordCrashes, Recording, Running, EndInv
  <2>3. VerifyChain /\ WriterAtEnd
    BY <2>2 DEF ChainInv, Trusted
  <2>4. VerifyChain'
    BY <2>2, <2>3, NextRecordFollows, NextRecordType, ExtendedChain
  <2> QED
    BY <2>1, <2>4 DEF WriterAtEnd
<1>5. CASE UNCHANGED lines /\ UNCHANGED <<resumed, head>> /\ Trusted
           /\ (phase' \in Running => phase \in Running)
  BY <1>5 DEF ChainInv, VerifyChain, WriterAtEnd, HashBefore
<1>6. CASE RecordUnresumed
  <2>1. Trusted /\ phase \in Running
    BY <1>6 DEF RecordUnresumed, Trusted, Running, history
  <2>2. ~ ResumeRaises
    BY <2>1, NextRecordFollows DEF ChainInv
  <2> QED
    BY <1>6, <2>2 DEF RecordUnresumed
<1>7. CASE BeginPublication \/ NothingToPublish \/ EndPublication
           \/ \E s \in Sinks : Publish(s) \/ PublishFails(s)
  BY <1>5, <1>7 DEF BeginPublication, NothingToPublish, EndPublication, Publish,
                    PublishFails, memory, publication, history, Trusted, Running
<1>8. CASE Stop \/ TrailCrash \/ UNCHANGED vars
  BY <1>5, <1>8 DEF Stop, TrailCrash, vars, memory, history, Trusted, Running
<1> QED
  BY <1>1, <1>2, <1>3, <1>4, <1>6, <1>7, <1>8 DEF TrailNext

(* No anchor is ahead of the file or names another record. *)
LEMMA AnchorStep == TrailInv /\ [TrailNext]_vars => AnchorInv'
<1> SUFFICES ASSUME TrailTypeOK, ChainInv, AnchorInv, EndInv, [TrailNext]_vars, ~ damaged'
             PROVE  /\ \A s \in Sinks : \A a \in stores'[s] : AnchorMatches(a)'
                    /\ phase' \in {"publish", "lastPublish"} => AnchorMatches(pending)'
  BY DEF TrailInv, AnchorInv
<1>1. ASSUME NEW enabled \in Anchoring, NEW reached \in SUBSET (Sinks \ broken),
             Start(enabled, reached)
      PROVE  /\ \A s \in Sinks : \A a \in stores'[s] : AnchorMatches(a)'
             /\ phase' \notin {"publish", "lastPublish"}
  BY <1>1 DEF Start, AnchorInv, AnchorMatches
<1>2. CASE Record \/ RecordCrashes
  <2>1. ~ damaged /\ ~ EndsOpen /\ phase \in Running /\ lines' = Written(NextRecord)
        /\ stores' = stores /\ phase' \notin {"publish", "lastPublish"}
    BY <1>2 DEF Record, RecordCrashes, Recording, Running, EndInv
  <2>2. VerifyChain /\ WriterAtEnd
    BY <2>1 DEF ChainInv, Trusted
  <2>3. \A a \in Anchor : AnchorMatches(a) => AnchorMatches(a)'
    BY <2>1, <2>2, NextRecordFollows, NextRecordType, ExtendedChain
  <2> QED
    BY <2>1, <2>3 DEF AnchorInv, TrailTypeOK
<1>3. CASE RecordFails
  <2>1. ~ damaged /\ lines' = lines /\ stores' = stores /\ phase' = "idle"
    BY <1>3 DEF RecordFails, Recording
  <2> QED
    BY <2>1 DEF AnchorInv, AnchorMatches
<1>4. CASE BeginPublication
  <2>1. ~ damaged /\ lines' = lines /\ stores' = stores /\ pending' = HeadAnchor
    BY <1>4 DEF BeginPublication, history
  <2>2. VerifyChain
    BY <2>1 DEF ChainInv, Trusted
  <2>3. AnchorMatches(HeadAnchor)
    BY <1>4, <2>2 DEF BeginPublication, EndsReadable, LastLine, HeadAnchor,
                      AnchorMatches, VerifyChain, TrailTypeOK
  <2> QED
    BY <2>1, <2>3 DEF AnchorInv, AnchorMatches
<1>5. ASSUME NEW s \in Sinks, Publish(s) \/ PublishFails(s)
      PROVE  /\ \A t \in Sinks : \A a \in stores'[t] : AnchorMatches(a)'
             /\ phase' \in {"publish", "lastPublish"} => AnchorMatches(pending)'
  <2>1. ~ damaged /\ lines' = lines /\ pending' = pending /\ phase' = phase
        /\ stores' \in {stores, Stored(s)} /\ AnchorMatches(pending)
    BY <1>5 DEF Publish, PublishFails, history, AnchorInv
  <2>2. \A t \in Sinks : Stored(s)[t] \subseteq stores[t] \cup {pending}
    BY DEF Stored, TrailTypeOK
  <2> QED
    BY <2>1, <2>2 DEF AnchorInv, AnchorMatches
<1>6. CASE RecordUnresumed \/ NothingToPublish \/ EndPublication \/ Stop
           \/ TrailCrash \/ UNCHANGED vars
  <2>1. ~ damaged /\ lines' = lines /\ stores' = stores /\ pending' = pending
        /\ (phase' \in {"publish", "lastPublish"} => phase' = phase)
    BY <1>6 DEF RecordUnresumed, NothingToPublish, EndPublication, Stop, TrailCrash,
                vars, publication, history
  <2> QED
    BY <2>1 DEF AnchorInv, AnchorMatches
<1> QED
  BY <1>1, <1>2, <1>3, <1>4, <1>5, <1>6 DEF TrailNext

-----------------------------------------------------------------------------
(* An undamaged trail keeps its last newline. *)
LEMMA EndStep == TrailInv /\ [TrailNext]_vars => EndInv'
<1> SUFFICES ASSUME TrailTypeOK, EndInv, [TrailNext]_vars, ~ damaged'
             PROVE  ~ EndsOpen'
  BY DEF TrailInv, EndInv
<1>1. CASE UNCHANGED lines /\ UNCHANGED damaged
  BY <1>1 DEF EndInv, EndsOpen, LastLine
<1>2. CASE Record \/ RecordCrashes
  <2>1. lines' = Append(lines, NextRecord) /\ NextRecord \in Line /\ NextRecord.ended
    BY <1>2, NextRecordType DEF Record, RecordCrashes, Recording, Written, EndInv
  <2> QED
    BY <2>1 DEF EndsOpen, LastLine, TrailTypeOK
<1>3. CASE RecordFails
  BY <1>1, <1>3 DEF RecordFails, TrailTypeOK
<1> QED
  BY <1>1, <1>2, <1>3
     DEF TrailNext, Start, RecordUnresumed, BeginPublication, NothingToPublish,
         Publish, PublishFails, EndPublication, Stop, TrailCrash, vars, history

-----------------------------------------------------------------------------
(* The invariant behind the theorems below. *)
THEOREM TrailInvariance == TrailSpec => []TrailInv
<1>1. TrailInit => TrailInv
  <2>1. TrailInit => TrailTypeOK
    <3> SUFFICES ASSUME TrailInit PROVE TrailTypeOK
      OBVIOUS
    <3>1. lines \in Seq(Line)
      BY DEF TrailInit
    <3>2. stores \in [Sinks -> SUBSET Anchor]
      BY DEF TrailInit
    <3>3. pending \in Anchor /\ head \in [seq : Nat \cup {-1}, hash : Nat]
      BY DEF TrailInit, NoHead, NoAnchor, Anchor, Genesis
    <3> QED
      BY <3>1, <3>2, <3>3 DEF TrailInit, TrailTypeOK, Stopped
  <2>2. TrailInit => ChainInv
    BY DEF TrailInit, ChainInv, VerifyChain, WriterAtEnd, Running
  <2>3. TrailInit => AnchorInv
    BY DEF TrailInit, AnchorInv
  <2>4. TrailInit => EndInv
    BY DEF TrailInit, EndInv, EndsOpen
  <2> QED
    BY <2>1, <2>2, <2>3, <2>4 DEF TrailInv
<1>2. TrailInv /\ [TrailNext]_vars => TrailInv'
  BY TrailTypeStep, ChainStep, AnchorStep, EndStep DEF TrailInv
<1> QED
  BY <1>1, <1>2, PTL DEF TrailSpec

(***************************************************************************)
(* The lines record appends, the head it remembers and the anchors         *)
(* publish_now stores keep their types, whatever fails.                    *)
(***************************************************************************)
THEOREM TrailTypeCorrect == TrailSpec => []TrailTypeOK
BY TrailInvariance, PTL DEF TrailInv

(***************************************************************************)
(* record and _resume keep the hash chain across restarts (ChainIntact).   *)
(***************************************************************************)
THEOREM ChainStaysIntact == TrailSpec => []ChainIntact
<1>1. TrailInv => ChainIntact
  BY DEF TrailInv, ChainInv, Trusted, ChainIntact
<1> QED
  BY <1>1, TrailInvariance, PTL

(***************************************************************************)
(* A process past the gate appends to a chain that verifies, whatever the  *)
(* processes before it left in the file, until a write of its own goes     *)
(* wrong (assert_trail_matches_anchors, record).                           *)
(***************************************************************************)
THEOREM OnlyOwnForks == TrailSpec => []ForksAreOwn
<1>1. TrailInv => ForksAreOwn
  BY DEF TrailInv, ChainInv, Trusted, ForksAreOwn
<1> QED
  BY <1>1, TrailInvariance, PTL

(***************************************************************************)
(* The startup gate (assert_trail_matches_anchors) never refuses an        *)
(* undamaged trail of the service, whichever sinks it can read.            *)
(***************************************************************************)
THEOREM GateNeverLocksOut == TrailSpec => []NeverLocksItselfOut
<1>1. TrailInv => NeverLocksItselfOut
  BY DEF TrailInv, ChainInv, AnchorInv, Trusted, NeverLocksItselfOut, GateAccepts
<1> QED
  BY <1>1, TrailInvariance, PTL

-----------------------------------------------------------------------------
(***************************************************************************)
(* The records without an anchor.                                          *)
(***************************************************************************)
Publishing == phase \in {"publish", "lastPublish"}

(* Between two publications the last anchor that reached a sink is at most *)
(* AnchorEvery records behind; during one, the anchor is that of the head. *)
TailInv ==
    phase \in Running =>
        /\ lastAnchored # -1 \/ phase # "idle" => anchoring
        /\ ~ damaged =>
              /\ phase = "anchor" => lines # <<>>
              /\ Publishing => pending.seq = Len(lines) - 1
              /\ Publishing /\ ~ lapsed => Anchored(pending.seq)
              /\ ~ Publishing /\ lastAnchored # -1 /\ ~ lapsed => Anchored(lastAnchored)
              /\ phase = "idle" /\ lastAnchored # -1 =>
                    Len(lines) - lastAnchored <= AnchorEvery

LEMMA TailStep == TrailInv /\ TailInv /\ [TrailNext]_vars => TailInv'
<1> SUFFICES ASSUME TrailInv, TailInv, [TrailNext]_vars, phase' \in Running
             PROVE  TailInv'
  BY DEF TailInv
<1> USE TrailAssumption DEF Publishing, Running, Stopped
<1>1. TrailTypeOK /\ TrailTypeOK'
  BY TrailTypeStep DEF TrailInv
<1>2. ASSUME NEW enabled \in Anchoring, NEW reached \in SUBSET (Sinks \ broken),
             Start(enabled, reached)
      PROVE  TailInv'
  BY <1>2 DEF Start, TailInv
<1>3. CASE Record
  <2>1. /\ phase = "idle" /\ phase' = IF anchoring /\ Due(NextRecord.seq) THEN "anchor" ELSE "idle"
        /\ lines' = Written(NextRecord)
        /\ UNCHANGED <<stores, anchoring, lastAnchored, pending, lapsed, damaged>>
    BY <1>3 DEF Record, Recording, publication
  <2>2. ASSUME ~ damaged
        PROVE  /\ NextRecord.seq = Len(lines) /\ Len(lines) \in Nat
               /\ lines' # <<>> /\ Len(lines') = Len(lines) + 1
    <3>1. ~ EndsOpen /\ VerifyChain /\ WriterAtEnd
      BY <2>2 DEF TrailInv, EndInv, ChainInv, Trusted
    <3>2. NextRecord.seq = Len(lines) /\ ~ ResumeRaises
      BY <1>1, <2>1, <3>1, NextRecordFollows
    <3>3. lines' = Append(lines, NextRecord) /\ NextRecord \in Line
      BY <1>1, <2>1, <3>1, <3>2, NextRecordType DEF Written
    <3> QED
      BY <1>1, <3>2, <3>3 DEF TrailTypeOK
  <2>3. anchoring' /\ ~ damaged' /\ phase' = "idle" => Len(lines') - lastAnchored <= AnchorEvery
    BY <1>1, <2>1, <2>2 DEF Due, TrailTypeOK
  <2> QED
    BY <2>1, <2>2, <2>3 DEF TailInv, Anchored
<1>4. CASE RecordFails
  <2>1. /\ phase = "idle" /\ phase' = "idle"
        /\ ~ damaged' => ~ damaged /\ lines' = lines
        /\ UNCHANGED <<stores, anchoring, lastAnchored, pending, lapsed>>
    BY <1>4 DEF RecordFails, Recording, publication
  <2> QED
    BY <2>1 DEF TailInv, Anchored
<1>5. CASE BeginPublication
  <2>1. /\ phase \in {"anchor", "lastAnchor"} /\ phase' \in {"publish", "lastPublish"}
        /\ EndsReadable /\ pending' = HeadAnchor /\ lapsed'
        /\ UNCHANGED <<lines, anchoring, damaged>>
    BY <1>5 DEF BeginPublication, memory, history
  <2>2. ~ damaged => pending'.seq = Len(lines) - 1
    <3> SUFFICES ASSUME ~ damaged PROVE LastLine.seq = Len(lines) - 1
      BY <2>1 DEF HeadAnchor
    <3>1. VerifyChain
      BY DEF TrailInv, ChainInv, Trusted
    <3> QED
      BY <1>1, <2>1, <3>1 DEF VerifyChain, EndsReadable, LastLine, TrailTypeOK
  <2> QED
    BY <2>1, <2>2 DEF TailInv
<1>6. CASE NothingToPublish
  <2>1. /\ phase = "anchor" /\ phase' = "idle" /\ ~ EndsReadable
        /\ UNCHANGED <<lines, anchoring, damaged>>
    BY <1>6 DEF NothingToPublish, memory, history
  <2>2. damaged
    <3>1. ~ damaged => VerifyChain /\ lines # <<>>
      BY <2>1 DEF TrailInv, ChainInv, Trusted, TailInv
    <3> QED
      BY <1>1, <2>1, <3>1, IntactEnd
  <2> QED
    BY <1>1, <2>1, <2>2 DEF TailInv, TrailTypeOK
<1>7. ASSUME NEW s \in Sinks, Publish(s) \/ PublishFails(s) PROVE TailInv'
  <2>1. /\ Publishing /\ phase' = phase
        /\ \/ stores' = Stored(s)
           \/ stores' = stores /\ lapsed' = lapsed
        /\ UNCHANGED <<lines, anchoring, pending, damaged>>
    BY <1>7 DEF Publish, PublishFails, memory, history
  <2>2. pending.seq \in Nat
    BY <1>1 DEF TrailTypeOK, Anchor
  <2>3. stores' = Stored(s) => Anchored(pending.seq)'
    <3> SUFFICES ASSUME stores' = Stored(s) PROVE Anchored(pending.seq)'
      OBVIOUS
    <3>1. pending \in stores'[s]
      BY <1>1 DEF Stored, TrailTypeOK
    <3> QED
      BY <2>1, <2>2, <3>1 DEF Anchored
  <2>4. stores' = stores => (Anchored(pending.seq)' <=> Anchored(pending.seq))
    BY <2>1 DEF Anchored
  <2> QED
    BY <2>1, <2>3, <2>4 DEF TailInv
<1>8. CASE EndPublication
  <2>1. /\ phase = "publish" /\ phase' = "idle" /\ lastAnchored' = pending.seq
        /\ UNCHANGED <<lines, stores, anchoring, lapsed, damaged>>
    BY <1>8 DEF EndPublication, publication, history
  <2>2. ~ damaged => Len(lines) - pending.seq <= AnchorEvery
    BY <1>1, <2>1 DEF TailInv, TrailTypeOK
  <2> QED
    BY <2>1, <2>2 DEF TailInv, Anchored
<1>9. CASE RecordUnresumed \/ Stop \/ UNCHANGED vars
  <2>1. /\ UNCHANGED <<lines, stores, anchoring, lastAnchored, pending, lapsed, damaged>>
        /\ \/ phase' = phase
           \/ phase = "idle" /\ phase' = "lastAnchor" /\ anchoring
    BY <1>9 DEF RecordUnresumed, Stop, vars, memory, publication, history
  <2> QED
    BY <2>1 DEF TailInv, Anchored
<1>10. ~ RecordCrashes /\ ~ TrailCrash
  BY DEF RecordCrashes, TrailCrash
<1> QED
  BY <1>2, <1>3, <1>4, <1>5, <1>6, <1>7, <1>8, <1>9, <1>10 DEF TrailNext

(***************************************************************************)
(* AuditAnchorPublisher bounds the unanchored tail: for every interval and *)
(* any sinks, a process whose last anchor reached one of them leaves fewer *)
(* than AnchorEvery records without an anchor (maybe_publish, publish_now).*)
(***************************************************************************)
THEOREM TailStaysBounded == TrailSpec => []TailBounded
<1>1. TrailInit => TailInv
  BY DEF TrailInit, TailInv, Running
<1>2. TrailInv /\ TailInv => TailBounded
  <2> SUFFICES ASSUME TrailInv, TailInv, phase = "idle", lastAnchored # -1, ~ lapsed,
                      ~ damaged
               PROVE  Anchored(Len(lines) - AnchorEvery)
    BY DEF TailBounded
  <2>1. Anchored(lastAnchored) /\ Len(lines) - lastAnchored <= AnchorEvery
    BY DEF TailInv, Running, Publishing
  <2>2. /\ lastAnchored \in Int /\ Len(lines) \in Nat /\ AnchorEvery \in Nat
        /\ \A s \in Sinks : \A a \in stores[s] : a.seq \in Nat
    BY TrailAssumption DEF TrailInv, TrailTypeOK, Anchor
  <2>3. PICK s \in Sinks : \E a \in stores[s] : a.seq >= lastAnchored
    BY <2>1 DEF Anchored
  <2>4. PICK a \in stores[s] : a.seq >= lastAnchored
    BY <2>3
  <2>5. a.seq >= Len(lines) - AnchorEvery
    BY <2>1, <2>2, <2>4
  <2> QED
    BY <2>5 DEF Anchored
<1> QED
  BY <1>1, <1>2, TailStep, TrailInvariance, PTL DEF TrailSpec
=============================================================================
