------------------------------ MODULE MCFatTree ------------------------------
EXTENDS FatTree
MCAlias == [n \in {"long", "longer"} |-> <<"a1", "a2">>]
MCPath == {<<n>> : n \in Name} \cup {<<n, m>> : n \in {"long", "a1"}, m \in Name}
=============================================================================
