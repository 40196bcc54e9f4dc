--------------------------- MODULE MCStreamSession ---------------------------
(***************************************************************************)
(* The five markets with their hours, from a Friday to a Tuesday, with     *)
(* each change of the clocks the zones go through, public holidays on the  *)
(* Monday, and a holiday season that ends or begins there.                 *)
(***************************************************************************)
EXTENDS StreamSession

MCMarkets == {"ftse", "spx", "dax", "asx", "nasdaq"}
MCZone == [m \in MCMarkets |->
    CASE m \in {"ftse", "dax"} -> "London" [] m = "asx" -> "Sydney" [] OTHER -> "NewYork"]
MCHoursZone == [MCZone EXCEPT !["dax"] = "Berlin"]
MCOpen == [m \in MCMarkets |->
    CASE m = "ftse" -> 48 [] m = "dax" -> 54 [] m = "asx" -> 60 [] OTHER -> 57]
MCClose == [m \in MCMarkets |->
    CASE m = "ftse" -> 99 [] m = "dax" -> 105 [] OTHER -> 96]

Winter == [London |-> 0, Berlin |-> 6, NewYork |-> -30, Sydney |-> 66]
EarlySpring == [Winter EXCEPT !["NewYork"] = -24]
Spring == [EarlySpring EXCEPT !["London"] = 6, !["Berlin"] = 12]
Summer == [Spring EXCEPT !["Sydney"] = 60]

Monday == 7
MCCalendars ==
    {[before |-> o[1], after |-> o[2], change |-> 6 * Day + 6,
      holidays |-> [m \in MCMarkets |-> IF m \in h THEN {Monday} ELSE {}], season |-> s] :
        o \in {<<Winter, EarlySpring>>, <<EarlySpring, Spring>>, <<Spring, Summer>>,
               <<Summer, Spring>>, <<Spring, EarlySpring>>, <<EarlySpring, Winter>>},
        h \in {{}, {"ftse"}, {"asx"}, {"ftse", "dax"}, MCMarkets},
        s \in {{}, 0 .. Monday, Monday .. 22}}
=============================================================================
