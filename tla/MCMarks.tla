------------------------------ MODULE MCMarks -------------------------------
EXTENDS Marks
G(name)       == [name |-> name, health |-> {}]
R(g, f, p, q) == [gateway |-> g, ports |-> q, family |-> f, proto |-> p]
U(proxy)      == [source |-> "static", static |-> {"fits"}, match |-> {}, priority |-> <<"main">>, proxyNDP |-> {proxy}]
N(name, proxy) ==
  [enable |-> TRUE, internal |-> "ula", allowNonULA |-> FALSE, table |-> name, maxHosts |-> {}, timeout |-> {},
   subnets |-> [s \in {"main", "guest"} |-> "inside"], uplinks |-> [u \in {"wan1"} |-> U(proxy)]]
C(backend, name, rules, npt) ==
  [firewall |-> backend, table |-> name, offset |-> 100, ecmp4 |-> {}, ecmp6 |-> FALSE, every |-> {},
   gateways |-> <<G("wan0"), G("wan1")>>, rules |-> rules, nptv6 |-> npt]
Four(q) == <<R("wan0", "", "tcp", q), R("wan1", "ipv4", "both", <<443>>)>>
Both == <<R("wan1", "both", "tcp", <<443, 8443>>)>>
Apart == {C("iptables", DefaultTable, Four(<<8443, 443, 443>>), {}), C("nftables", DefaultTable, Both, {N(NoName, TRUE)}),
          C("iptables", DefaultTable, <<>>, {N(NoName, FALSE)})}
Shared == {c \in {C(b, n, Four(<<443>>), {N(<<"rb", 0>>, p)}) : b \in {"iptables", "nftables"},
                     n \in {<<"rb", 0>>, <<"rb", 1>>, <<"other", 0>>}, p \in BOOLEAN} : Accepted(c)}
ASSUME ApartAssumption == \A c \in Apart : NamesApart(c) /\ PortsAscend(c)
Maps == {<<>>, <<<<"wan1", "main">>>>, <<<<"wan1", "main">>, <<"wan1", "guest">>>>}
=============================================================================
