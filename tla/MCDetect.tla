------------------------------ MODULE MCDetect -------------------------------
\* Instances of Detect: containers of up to three entries, all short texts, pictures at
\* the edges of the limit.
EXTENDS Detect

Nothing == [mime |-> "known", preflight |-> "none", entries |-> <<>>, intact |-> TRUE,
            payload |-> <<0, 0, 0, 0>>, size |-> <<1, 1>>, encoding |-> "utf8",
            units |-> <<>>, extension |-> "plain"]

SomeEntries == {[root |-> r, role |-> "none"] : r \in {0, 1, 4}}
               \cup {[root |-> 1, role |-> "vba"]}
               \cup {[root |-> 0, role |-> r] : r \in Roles \ {"none", "vba"}}
IsTypes(e) == e.role \in {"types", "macrotypes", "badtypes", "typesdir"}

\* Preflight has refused two entries of one name.
OneTypes(s) == \A j, k \in DOMAIN s : j < k => ~(IsTypes(s[j]) /\ IsTypes(s[k]))

Containers == {[Nothing EXCEPT !.mime = "zip", !.entries = s] :
                 s \in {t \in [1..3 -> SomeEntries] : OneTypes(t)}}
              \cup {[Nothing EXCEPT !.mime = m, !.entries = s, !.preflight = p] :
                      m \in {"ooxml", "macro"}, p \in {"none", "archive_path_unsafe"},
                      s \in {t \in [1..2 -> SomeEntries] : OneTypes(t)}}

Texts8 == {[Nothing EXCEPT !.mime = "other", !.units = u, !.extension = x] :
             u \in UNION {[1..n -> {"char", "nul", "bad"}] : n \in 0..4}, x \in {"source", "never"}}
Texts16 == {[Nothing EXCEPT !.mime = "other", !.units = u, !.encoding = "utf16"] :
              u \in UNION {[1..n -> {"char", "nul", "high", "low"}] : n \in 0..5}}
           \cup {[Nothing EXCEPT !.mime = "other", !.units = <<"char", "bad">>,
                                 !.encoding = "utf16"]}

\* All pictures with sides of up to eight pixels, the others by the bits of the header.
Pictures == {[Nothing EXCEPT !.mime = m, !.size = <<w, h>>] :
               m \in {"image", "extended"}, w \in 0..8, h \in 0..8}
            \cup {[Nothing EXCEPT !.mime = "webp", !.payload = <<p, q, r, t>>] :
                    p \in {0, 1, 2, 255}, q \in {0, 1, 63, 64, 192, 255}, r \in {0, 1, 255},
                    t \in {0, 1, 16, 255}}
            \cup {[Nothing EXCEPT !.mime = m, !.intact = FALSE] :
                    m \in {"webp", "image", "extended"}}

Others == {Nothing, [Nothing EXCEPT !.mime = "denied"]}

SomeDocs == Containers \cup Texts8 \cup Texts16 \cup Pictures \cup Others
BothPolicies == {"reject", "reject_batch"}
AllEvents == {"detector", "timeout", "cancel"}
=============================================================================
