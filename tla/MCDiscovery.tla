----------------------------- MODULE MCDiscovery -----------------------------
(* Small instances of Discovery for TLC. *)
EXTENDS Discovery

CONSTANTS l1, l2

TwoLoops == {l1, l2}

At(host) == <<host, 80>>

ManualAddr == {At("m")}

BadAddress == {At("bad")}

OneManual == <<[id |-> None, addr |-> At("m")]>>

Backends(ids) == [i \in 1..Len(ids) |-> [id |-> ids[i], addr |-> At(ids[i])]]

Srv(name, root) == [target |-> [name |-> name, root |-> root], port |-> 80]

Entry(id, tags, address, port) ==
    [service_id |-> id, tags |-> tags, address |-> address, port |-> port]

Kv(key, utf8, socket_addr) == [key |-> key, utf8 |-> utf8, socket_addr |-> socket_addr]

\* Consul is asked for one tag.
AllSources ==
    {[kind |-> k, tag_filter |-> None] : k \in {"static", "dns", "etcd"}}
        \cup {[kind |-> "consul", tag_filter |-> "web"]}

\* For each kind, registries that convert to several ids, to one id twice, to
\* other addresses, to fewer descriptors than there are records, and to none.
SomeRegistries ==
    [static |-> {Backends(<<"x", "bad", "x">>)},
     dns    |-> {<<Srv("x", TRUE), Srv("y", TRUE)>>, <<Srv("y", TRUE)>>},
     consul |-> {<<Entry("i", {"web"}, "x", 80), Entry("i", {"web"}, "y", 80),
                   Entry("k", {"db"}, "z", 80)>>,
                 <<Entry(None, None, "x", 80), Entry("j", {"web"}, "", 80),
                   Entry("k", {"web"}, "y", 0), Entry("i", None, "bad", 80)>>},
     etcd   |-> {<<Kv("i", TRUE, At("x")), Kv("j", TRUE, None)>>,
                 <<Kv("j", TRUE, At("y")), Kv("k", FALSE, At("y"))>>}]
==============================================================================
