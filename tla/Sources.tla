------------------------------- MODULE Sources -------------------------------
(***************************************************************************)
(* The four ServiceDiscovery sources of src/src/utils/discovery.rs: what   *)
(* discover makes of the records its registry holds.  A descriptor is the  *)
(* pair reconcile reads, id and addr (host and port); the weight, metadata *)
(* and health_check of a descriptor are never read by Discover.  A lookup  *)
(* that fails as a whole is Err, here None.                                *)
(***************************************************************************)
EXTENDS Vectors, Functions, Options

Map(s, F(_)) == [i \in 1..Len(s) |-> F(s[i])]

\* The elements of s that are in S, in their order; Iterator::filter.
Filter(s, S) ==
    LET f[n \in 0..Len(s)] ==
            IF n = 0 THEN <<>> ELSE IF s[n] \in S THEN Append(f[n - 1], s[n]) ELSE f[n - 1]
    IN  f[Len(s)]

\* SRV records [target, port].  The id keeps the target as it was answered, a
\* name with or without its root dot; the address drops the dot.
DnsDiscover(records) ==
    LET Describe(r) == [id |-> <<r.target, r.port>>, addr |-> <<r.target.name, r.port>>]
    IN  Map(records, Describe)

\* Catalog entries [service_id, tags, address, port], each field optional.  An
\* entry without tags passes every filter; one without an id gets the empty id.
TagMatches(filter, e) == filter = None \/ e.tags = None \/ filter \in e.tags

Addressed(e) == e.address \notin {None, ""} /\ e.port \notin {None, 0}

ConsulDiscover(filter, entries) ==
    LET Describe(e) == [id |-> IF e.service_id = None THEN "" ELSE e.service_id,
                        addr |-> <<e.address, e.port>>]
    IN  Map(Filter(entries, {e \in Range(entries) : TagMatches(filter, e) /\ Addressed(e)}),
            Describe)

\* Key-value pairs [key, utf8, socket_addr]: a key or a value that is not UTF-8
\* fails the whole lookup, a value that is not a socket address is passed over.
EtcdDiscover(kvs) ==
    LET Describe(kv) == [id |-> kv.key, addr |-> kv.socket_addr]
    IN  IF \E i \in 1..Len(kvs) : ~kvs[i].utf8
        THEN None
        ELSE Map(Filter(kvs, {kv \in Range(kvs) : kv.socket_addr # None}), Describe)

\* What discover makes of the records of a registry; StaticDiscovery holds
\* descriptors.
Answer(source, records) ==
    CASE source.kind = "static" -> records
      [] source.kind = "dns"    -> DnsDiscover(records)
      [] source.kind = "consul" -> ConsulDiscover(source.tag_filter, records)
      [] source.kind = "etcd"   -> EtcdDiscover(records)
==============================================================================
