--------------------------- MODULE MCWeatherTape ----------------------------
(* Two markets, of one day and the next, which falls in the next month. *)
EXTENDS WeatherTape, TLC

CONSTANTS m1, m2, today, tomorrow

DayOf == (m1 :> today) @@ (m2 :> tomorrow)
CloseOf == (today :> 1) @@ (tomorrow :> 2)
MonthOf == (today :> 1) @@ (tomorrow :> 2)
=============================================================================
