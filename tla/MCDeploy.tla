------------------------------ MODULE MCDeploy ------------------------------
EXTENDS Deploy
P(t, n)     == [type |-> t, needs |-> n]
Timed(p, q, i) == {[probe |-> p, probe6 |-> q, interval |-> i, timeout |-> "given"]}
H(p, q)     == Timed(p, q, "given")
GW(h)       == <<[name |-> "wan0", health |-> h], [name |-> "wan1", health |-> {}]>>
Gateways    == {GW({})} \cup {GW(H(p, q)) :
                  p \in {P("icmp", "given"), P("exec", "missing"), P("http", "missing"), P("http", "malformed"), P("none", "missing")},
                  q \in {{}, {P("tcp", "missing")}, {P("none", "missing")}}}
               \cup {GW(Timed(P("icmp", "given"), {}, i)) : i \in {"slight", ""}}
R(g, f, p)  == [gateway |-> g, ports |-> p, family |-> f, proto |-> "both"]
RuleLists   == {<<>>, <<R("wan1", "", <<443>>)>>, <<R("wan1", "both", <<443>>)>>, <<R("wan0", "ipv6", <<443>>)>>, <<R("wan9", "", <<>>)>>}
U(src, s, m, pr, px) == [source |-> src, static |-> s, match |-> m, priority |-> pr, proxyNDP |-> px]
T(i, g, n, sub, f, t) == [enable |-> TRUE, internal |-> i, allowNonULA |-> g, table |-> n, maxHosts |-> {}, timeout |-> t,
                       subnets |-> [x \in {"main"} |-> sub], uplinks |-> f]
N(i, g, n, sub, f) == T(i, g, n, sub, f, {})
Ra     == [w \in {"wan1"} |-> U("ra", {}, {}, <<"main">>, {})]
St(s)  == [w \in {"wan1"} |-> U("static", s, {}, <<"main">>, {})]
Two(m) == [w \in {"wan1", "wan2"} |-> U("route", {}, m, <<"main">>, {})]
Twice  == [w \in {"wan1"} |-> U("ra", {}, {}, <<"main", "main">>, {FALSE})]
RB     == <<"rb", 0>>
Nptv6  == {{}} \cup {{n} : n \in {N("ula", FALSE, RB, "inside", Ra), N("gua", FALSE, NoName, "inside", Ra), N("gua", TRUE, NoName, "inside", Ra),
                               N("longula", FALSE, RB, "inside", Ra), N("wideula", FALSE, RB, "inside", Ra), N("wideula", TRUE, RB, "inside", Ra),
                               N("ula", FALSE, RB, "padded", Ra), T("ula", FALSE, RB, "inside", Ra, {"slight"}), N("ula", FALSE, RB, "outside", Ra), N("ula", FALSE, RB, "length", Ra),
                               N("ula", FALSE, RB, "inside", St({"fits"})), N("ula", FALSE, RB, "inside", St({})), N("ula", FALSE, RB, "inside", St({""})),
                               N("ula", FALSE, RB, "inside", St({"long"})), N("ula", FALSE, RB, "inside", Two({})), N("ula", FALSE, RB, "inside", Two({""})),
                               N("ula", FALSE, RB, "inside", Two({"some"})), N("ula", FALSE, RB, "inside", Twice)}}
Options == [firewall: {"iptables", "nftables"}, table: {RB, <<"rb", 1>>, DefaultTable}, offset: {100, 252}, ecmp4: {{TRUE}, {FALSE}}, ecmp6: BOOLEAN,
            every: {{}}, gateways: Gateways, rules: RuleLists, nptv6: Nptv6]
        \cup
           [firewall: {"nftables"}, table: {RB}, offset: {100}, ecmp4: {{TRUE}, {FALSE}}, ecmp6: {FALSE},
            every: {{d} : d \in {"given", "slight", "terse", "bad", ""}}, gateways: {GW({})}, rules: RuleLists, nptv6: Nptv6]
=============================================================================
