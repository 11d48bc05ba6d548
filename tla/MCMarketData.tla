---------------------------- MODULE MCMarketData ----------------------------
(***************************************************************************)
(* ProviderRegistry and EdgeFeeds, the polled and the pushed sources of a  *)
(* cycle's features, side by side.  They share no variable, so that a      *)
(* behaviour of both is a behaviour of each, interleaved; it is enough to  *)
(* let one of the two move while the other stays at its beginning.  Cache  *)
(* keys are interchangeable.                                               *)
(***************************************************************************)
EXTENDS ProviderRegistry, EdgeFeeds, TLC

VARIABLE moving    \* the one of the two that moves

KeySymmetry == Permutations(Keys)

RegistryMoves(Step) ==
    /\ moving = "registry"
    /\ Step
    /\ UNCHANGED <<moving, edgeVars>>

FeedsMove(Step) ==
    /\ moving = "feeds"
    /\ Step
    /\ UNCHANGED <<moving, registryVars>>

MarketDataInit ==
    RegistryInit /\ EdgeInit /\ moving \in {"registry", "feeds"}

MarketDataNext ==
    \/ RegistryMoves(Tick)
    \/ \E k \in Keys : RegistryMoves(ServeCached(k))
    \/ \E k \in Keys : RegistryMoves(RefusedByBreaker(k))
    \/ \E k \in Keys : RegistryMoves(RefusedByQuota(k))
    \/ \E k \in Keys : RegistryMoves(Send(k))
    \/ RegistryMoves(Fails)
    \/ RegistryMoves(Answers)
    \/ RegistryMoves(TimeIsUp)
    \/ FeedsMove(Pass)
    \/ \E side \in Sides : FeedsMove(ForceOrder(side))
    \/ FeedsMove(LiqMessage)
    \/ FeedsMove(LiqFails)
    \/ FeedsMove(LiqReopens)
    \/ FeedsMove(BookChange)
    \/ FeedsMove(TickerMessage)
    \/ FeedsMove(TickerFails)
    \/ FeedsMove(TickerReopens)
    \/ FeedsMove(EdgeFeatures)

MarketDataSpec ==
    MarketDataInit /\ [][MarketDataNext]_<<moving, registryVars, edgeVars>>
=============================================================================
