----------------------------- MODULE MCBatchLoad -----------------------------
\* Instances of BatchLoad: two blobs, a few uploads and directories.
EXTENDS BatchLoad

CONSTANTS a, b

TwoNames == {a, b}
SomeContents == {<<1>>, <<2>>, <<1, 2>>}

Of(name, content) == [name |-> name, size |-> Len(content), digest |-> content]
Declares(files) == [malformed |-> FALSE, files |-> files]

both == Declares(<<Of(a, <<1>>), Of(b, <<2>>)>>)
other == Declares(<<Of(b, <<1, 2>>), Of(a, <<2>>)>>)
one == Declares(<<Of(a, <<1>>)>>)
twice == Declares(<<Of(a, <<1>>), Of(a, <<1>>)>>)
large == Declares(<<Of(a, <<1, 2>>), Of(b, <<1, 2>>)>>)
broken == [malformed |-> TRUE, files |-> <<>>]

SomeUploads == {both, other, one, twice, large, broken}

LaterUploads == {both, other, broken}

Holding(u, x, y, missing) ==
    [upload |-> u, blob |-> (a :> x) @@ (b :> y), absent |-> missing, extra |-> FALSE]

SomeLayouts == {Holding(both, <<1>>, <<2>>, {}), Holding(other, <<2>>, <<1, 2>>, {}),
                Holding(one, <<1>>, <<2>>, {b}), Holding(twice, <<1>>, <<2>>, {b}),
                Holding(large, <<1, 2>>, <<1, 2>>, {}), Holding(both, <<1>>, <<>>, {}),
                [Holding(one, <<2>>, <<2>>, {b}) EXCEPT !.extra = TRUE]}

OtherLayouts == {Holding(both, <<1>>, <<2>>, {}), Holding(other, <<2>>, <<1, 2>>, {})}

AllFaults == {"cancel", "io"}
=============================================================================
