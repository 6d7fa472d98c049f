--------------------------- MODULE MCStreamClient ---------------------------
EXTENDS StreamClient, TLC

CONSTANTS s1, s2, Echo, Pair

MCStreamId == {s1, s2}
MCMethod == {Echo, Pair}
\* Echo(ch <-chan int); Pair(a <-chan int, b <-chan []int)
MCMethodChans == (Echo :> <<"IntK">>) @@ (Pair :> <<"IntK", "ListK">>)

=============================================================================
