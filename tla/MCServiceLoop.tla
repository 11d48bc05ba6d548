---------------------------- MODULE MCServiceLoop ---------------------------
(* ServiceLoop with two symbols, two evidence packets and the settings     *)
(* that select every branch: each mode of the reviewer with each way of    *)
(* executing, each state of the Redis channel, the flag, a torn checkpoint.*)
EXTENDS ServiceLoop

paperVeto ==
    [mode |-> "paper", submit |-> TRUE, paperFills |-> TRUE, diagnostic |-> FALSE,
     review |-> "veto", redis |-> "wired", flag |-> FALSE, durable |-> TRUE]

MCConfigs ==
    {paperVeto,
     [paperVeto EXCEPT !.mode = "shadow", !.redis = "off"],
     [paperVeto EXCEPT !.review = "off"],
     [paperVeto EXCEPT !.diagnostic = TRUE, !.review = "off", !.redis = "off"],
     [paperVeto EXCEPT !.redis = "missing"],
     [paperVeto EXCEPT !.submit = FALSE, !.review = "advisory", !.redis = "off"],
     [paperVeto EXCEPT !.flag = TRUE, !.redis = "off"],
     [paperVeto EXCEPT !.durable = FALSE]}
=============================================================================
