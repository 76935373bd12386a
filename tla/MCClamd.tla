------------------------------- MODULE MCClamd -------------------------------
\* Instances of Clamd: files up to one chunk beyond what clamd accepts.
EXTENDS Clamd

SomeFiles == {<<>>, <<"good", "good">>, <<"good", "bad">>, <<"good", "good", "good">>}
Short == {<<"good">>}
Long == {<<"good", "good", "good">>}

Everything == {<<"ping", "version">>, <<"scan">>}
OnlyScan == {<<"scan">>}

Both == {"reject", "reject_batch"}
Strict == {"reject_batch"}

NoEvents == {}
SlowClamd == {"stall", "deadline"}
=============================================================================
