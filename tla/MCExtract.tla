------------------------------ MODULE MCExtract ------------------------------
\* Instances of Extract: names that collide, sizes that lie, flaws in any position.
EXTENDS Extract

\* "kelvin" is the Kelvin sign: NFC makes it the letter "K", which folds to "k".
Letters == {"k", "K", "kelvin", "x"}
Composed == [s \in Letters |-> IF s = "kelvin" THEN "K" ELSE s]
Lower == [s \in Letters |-> IF s = "x" THEN "x" ELSE "k"]

Named(p, k) == [path |-> p, kind |-> k, flaw |-> "none", declared |-> 0, actual |-> 0,
                crc |-> TRUE]
Kinds == {"file", "dir", "link"}
OneOrTwo == {<<a>> : a \in Letters} \cup {<<a, b>> : a \in Letters, b \in Letters}
Few == {<<"k">>, <<"K">>, <<"x">>, <<"k", "x">>, <<"K", "x">>, <<"x", "kelvin">>}
Whole(s) == [flaw |-> "none", entries |-> s]

\* Every pair of names and kinds, and triples over fewer names.
NamePairs == {Named(p, k) : p \in OneOrTwo, k \in Kinds}
NameTriples == {Named(p, k) : p \in Few, k \in Kinds}
NameArchives ==
    {Whole(<<a, b>>) : a \in NamePairs, b \in NamePairs}
    \cup {Whole(<<a, b, c>>) : a \in NameTriples, b \in NameTriples, c \in NameTriples}

\* Entries of every size, true or not, and more honest ones than fit.
Sized(p) == {[Named(p, k) EXCEPT !.declared = d, !.actual = a, !.crc = c] :
               k \in {"file", "link"}, d \in 0..3, a \in 0..3, c \in BOOLEAN}
Honest(p) == {[Named(p, k) EXCEPT !.declared = d, !.actual = d] : k \in Kinds, d \in 1..2}
SizeArchives ==
    {Whole(<<a, b>>) : a \in Sized(<<"k", "k">>), b \in Sized(<<"k", "x">>) \cup Sized(<<"k">>)}
    \cup {Whole(<<Named(<<"K", "kelvin">>, "dir"), b>>) : b \in Sized(<<"x">>)}
    \cup {Whole(<<a, b, c>>) : a \in Honest(<<"k">>), b \in Honest(<<"x", "x">>),
                               c \in Honest(<<"x", "k">>)}

\* A flaw in the first or the last entry, in the archive, or too many entries.
Ok == Named(<<"k", "k">>, "file")
Flawed == {[Named(<<"k">>, k) EXCEPT !.flaw = f, !.declared = d] :
             k \in Kinds, f \in Flaws, d \in 0..1}
FlawArchives == {Whole(<<>>), Whole(<<Ok, Ok, Ok, Ok>>)}
                \cup {Whole(<<a, Ok>>) : a \in Flawed} \cup {Whole(<<Ok, a>>) : a \in Flawed}
                \cup {[flaw |-> f, entries |-> <<Ok>>] : f \in {"zip64", "torn"}}

AllArchives == NameArchives \cup SizeArchives \cup FlawArchives
FaultKinds == {"cancel", "io", "cleanup"}
=============================================================================
