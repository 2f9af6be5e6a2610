--------------------------- MODULE MCSchemeRequests ---------------------------
(* An instance of SchemeRequests for TLC.                                  *)
EXTENDS SchemeRequests

CONSTANTS t1, t2, svc, aux, shop, name1, name1b, name2, m, n1, n2,
          site0, site1, d1, tn1, tn2, own1, own2, gen1, gen1up, bad,
          gsvc, gshop1, gshop2, nohost, nopath, root

MCLower == [h \in Hosts |-> IF h = gen1up THEN gen1 ELSE h]
MCPublicServices == (m :> {svc}) @@ (n1 :> {shop}) @@ (n2 :> {})
MCDomainHost == [x \in Services \X Domains |->
                    IF x[1] = svc THEN gsvc ELSE own2]
MCShoppingHost == [x \in Domains \X TenantNames |->
                      IF x[1] = d1 THEN gshop1 ELSE gshop2]
MCNameCandidates == (tn1 :> <<name1, name1b>>) @@ (tn2 :> <<name2>>)
MCCloudRoutes == {[ns |-> m, service |-> svc, host |-> gen1],
                  [ns |-> n1, service |-> svc, host |-> own1]}

Text(proto, h, path) == <<[proto |-> proto, host |-> h, path |-> path]>>
All(list) == [i \in DOMAIN list |-> Plain(list[i])]
One(service, list) == site0 :> (service :> All(list))
OneHost(a, b) == site0 :> ((svc :> a) @@ (aux :> b))

SiteMaps == {
    One(svc, <<own1>>), One(svc, <<gen1>>), One(svc, <<own1, gen1>>),
    One(svc, <<gen1, own1>>), One(svc, <<gen1, own1, gen1up>>),
    One(svc, <<gen1up, gen1, own1>>),
    site0 :> ((svc :> All(<<own1>>)) @@ (shop :> All(<<gshop1>>))),
    (site0 :> (shop :> All(<<gshop1>>)))
        @@ (site1 :> ((svc :> All(<<own2>>)) @@ (shop :> All(<<gshop2>>)))),
    OneHost(Text("http", own1, nopath), Text("", own1, nopath)),
    OneHost(Text("https", own1, nopath), Text("", own1, nopath)),
    OneHost(Text("", own1, root), Text("http", own1, nopath)),
    (site0 :> (shop :> All(<<gshop1>>)))
        @@ (site1 :> ((name1b :> All(<<own2>>)) @@ (shop :> All(<<gshop2>>)))),
    One(svc, <<bad>>) }

NamespaceLists == {<<>>, <<n1>>, <<m, n1>>, <<n1, n2>>, <<n2, m, n1>>, <<m, n1, m>>}

Body(t, tn, sites, active, namespaces, domain) ==
    [tenant |-> t,
     row |-> [sites |-> sites, active |-> active, namespaces |-> namespaces,
              domainName |-> domain, tenantName |-> tn, serviceName |-> NoName]]

MCPayloads ==
    {Body(t1, tn1, s, TRUE, <<>>, NoDomain) : s \in SiteMaps}
    \union {Body(t1, tn1, One(svc, <<own1>>), TRUE, n, NoDomain) :
              n \in NamespaceLists}
    \union {Body(t1, tn1, One(svc, <<own1>>), FALSE, <<n1>>, d) :
              d \in {NoDomain, d1}}
    \union {Body(t1, tn1, (site0 :> (shop :> All(<<own2>>)))
                           @@ (site1 :> (aux :> All(<<gsvc>>))), FALSE, <<n1>>, d1)}
    \union {Body(t2, tn2, s, TRUE, <<>>, NoDomain) :
              s \in {One(aux, <<gsvc>>),
                     site0 :> ((aux :> All(<<own1>>)) @@ (shop :> All(<<gshop1>>)))}}

MCRegistrations == {[tenant |-> t1, namespaces |-> <<m, n1>>, tenantName |-> tn1]}

MCParentMaps == {(m :> None) @@ (n1 :> m) @@ (n2 :> parent) :
                    parent \in {n1, m, NoParent}}
                \union {(m :> None) @@ (n1 :> None) @@ (n2 :> n1)}
===============================================================================
