--------------------------- MODULE MCRiskControls ---------------------------
(***************************************************************************)
(* AuditTrail and StrategyBreaker, the two records of the risk controls    *)
(* that outlive the process, side by side.  They share no variable and no  *)
(* file, so that a behaviour of both is a behaviour of each, interleaved;  *)
(* it is enough to let one of the two move while the other stays at its    *)
(* beginning.                                                              *)
(***************************************************************************)
EXTENDS AuditTrail, StrategyBreaker

VARIABLE moving    \* the one of the two that moves

(* Losses that trip the breaker by their number and by their size, a       *)
(* break-even trade and a win.                                             *)
OutcomeSet == {-2, -1, 0, 2}

TrailMoves(Step) ==
    /\ moving = "trail"
    /\ Step
    /\ UNCHANGED <<moving, breakerVars>>

BreakerMoves(Step) ==
    /\ moving = "breaker"
    /\ Step
    /\ UNCHANGED <<moving, vars>>

RiskControlsInit ==
    TrailInit /\ BreakerInit /\ moving \in {"trail", "breaker"}

RiskControlsNext ==
    \/ \E enabled \in Anchoring, reached \in SUBSET (Sinks \ broken) :
          TrailMoves(Start(enabled, reached))
    \/ TrailMoves(RecordUnresumed)
    \/ TrailMoves(Record)
    \/ TrailMoves(RecordFails)
    \/ TrailMoves(RecordCrashes)
    \/ TrailMoves(BeginPublication)
    \/ TrailMoves(NothingToPublish)
    \/ TrailMoves(EndPublication)
    \/ \E s \in Sinks : TrailMoves(Publish(s))
    \/ \E s \in Sinks : TrailMoves(PublishFails(s))
    \/ TrailMoves(Stop)
    \/ TrailMoves(TrailCrash)
    \/ BreakerMoves(RecordReducingFill)
    \/ BreakerMoves(RecordLedgerClose)
    \/ BreakerMoves(Reset)
    \/ BreakerMoves(Export)
    \/ BreakerMoves(Crash)
    \/ BreakerMoves(Load)
    \/ BreakerMoves(Tick)

RiskControlsSpec ==
    RiskControlsInit /\ [][RiskControlsNext]_<<moving, vars, breakerVars>>
=============================================================================
