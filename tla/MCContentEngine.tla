------------------------- MODULE MCContentEngine -------------------------
(* TLC instance of ContentEngine.                                            *)
EXTENDS ContentEngine

On == [lossless |-> FALSE, ccr |-> TRUE, offload |-> TRUE, crusher |-> TRUE, search |-> TRUE,
       template |-> TRUE, logs |-> TRUE, prose |-> TRUE, code |-> FALSE, relaxed |-> 85, aggressive |-> 95]

MCConfigs == {ModeConfig(mode, On) : mode \in {"normal", "lossless_only", "aggressive"}}
               \cup {[On EXCEPT !.code = TRUE, !.offload = FALSE]}

MCTraits == {[huge |-> h, marked |-> m, html |-> w] :
               <<h, m, w>> \in {<<FALSE, FALSE, FALSE>>, <<TRUE, FALSE, FALSE>>,
                                <<FALSE, TRUE, FALSE>>, <<FALSE, FALSE, TRUE>>}}

Line == {{"fence"}, {"ticks"}, {"array"}, {"envelope"}, {"opens"}, {"closes"}, {"checklist"},
         {"search"}, {"cells"}, {"cells", "log"}, {"log", "severe"}, {"header"}, {}, {"blank"}}

MCTexts == UNION {[1 .. n -> Line] : n \in 1 .. 2}
             \cup {<<a, b, c>> : a \in {{"fence"}, {"opens"}, {"search"}, {}}, b \in Line, c \in Line}
             \cup {<<{"code"}, {"code"}, {"code"}>>, <<{"header"}, {"change"}, {}>>,
                   <<{"prose"}, {"prose"}, {"array"}>>, <<{}, {"fence"}, {"code"}, {"ticks"}, {"array"}>>,
                   <<{"opens"}, {"object"}, {"closes"}, {}>>}
=============================================================================
