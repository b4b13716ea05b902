----------------------------- MODULE MCIPBlock -----------------------------
EXTENDS IPBlock

CONSTANTS a, b, c

MCHeader == {"x-real-ip", "x-forwarded-for"}

\* Up to two parts in one header and one in the other, junk among them.
MCMetadata ==
    LET Part == {b, c, Junk}
        Short == {<<>>} \cup {<<x>> : x \in Part}
        Long == Short \cup {<<x, y>> : x \in Part, y \in Part}
    IN  {[h \in MCHeader |-> IF h = "x-real-ip" THEN s ELSE l] : s \in Short, l \in Long}

Addr(x) == [form |-> "addr", of |-> x]
Net(S) == [form |-> "prefix", of |-> S]
Bad == [form |-> "junk"]

\* A mode that is neither list, bad entries in both lists, the default priority and
\* the reverse one.
MCConfigs ==
    [Mode : 0..2,
     CIDRs : {<<>>, <<Addr(a)>>, <<Net({}), Net({b, c})>>, <<Addr(b), Bad>>},
     TrustedProxies : {<<>>, <<Addr(b), Addr(a)>>, <<Net({a, b, c})>>, <<Bad>>},
     HeaderPriority : {<<>>, <<"x-forwarded-for", "x-real-ip">>, <<"x-real-ip">>}]

=============================================================================
