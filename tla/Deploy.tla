------------------------------- MODULE Deploy -------------------------------
(***************************************************************************)
(* How a configuration gets to run: the assertions of the NixOS module are *)
(* evaluated over what an operator wrote, the program is started with the  *)
(* file that comes of it, and refuses it or runs; one that stops with an   *)
(* error is started again.                                                 *)
(*                                                                         *)
(* Source: nix/module/route-balancer.nix, main.go, internal/config (Load), *)
(* and Settings.                                                           *)
(***************************************************************************)
EXTENDS Settings

CONSTANT Written  \* what an operator may write

\* What is absent from the file is absent here, and what may be left out is there once.
ASSUME WrittenAssumption ==
  \A c \in Written :
    /\ DOMAIN c = {"firewall", "table", "offset", "ecmp4", "ecmp6", "every", "gateways", "rules", "nptv6"}
    /\ c.offset \in Int /\ c.ecmp6 \in BOOLEAN /\ c.ecmp4 \in {{}, {TRUE}, {FALSE}}
    /\ \A k \in DOMAIN c.gateways : \A h \in c.gateways[k].health : \A p \in {h.probe} \cup h.probe6 :
         p.needs \in {"given", "missing", "malformed"}
    /\ \A m, n \in c.nptv6 : m = n
    /\ \A n \in c.nptv6 :
         /\ {n.enable, n.allowNonULA} \subseteq BOOLEAN
         /\ n.maxHosts = {} \/ \E hosts \in Int : n.maxHosts = {hosts}
         /\ \A u \in DOMAIN n.uplinks :
              /\ n.uplinks[u].static \in {{}} \cup {{s} : s \in {"", "fits", "long", "bad"}}
              /\ n.uplinks[u].match \in {{}} \cup {{s} : s \in {"", "some", "bad"}}

VARIABLES
  options,  \* what is written
  unit      \* what came of it: "written", "rejected", "starting", "running" or "failed"

vars == <<options, unit>>

Init == options \in Written /\ unit = "written"

\* The host is built, or an assertion fails.
Evaluate ==
  /\ unit = "written"
  /\ unit' = IF ModuleAccepts(options) THEN "starting" ELSE "rejected"
  /\ UNCHANGED options

\* main: what is absent from the file gets its default, and Resolve has the last word.
Start ==
  /\ unit = "starting"
  /\ unit' = IF Accepted(SetDefaults(options)) THEN "running" ELSE "failed"
  /\ UNCHANGED options

\* Restart=on-failure
Restart ==
  /\ unit = "failed"
  /\ unit' = "starting"
  /\ UNCHANGED options

Next == Evaluate \/ Start \/ Restart

Spec == Init /\ [][Next]_vars

-----------------------------------------------------------------------------
(* Properties.                                                              *)

\* A prefix of an uplink that is there, and empty where one is needed, or does not do.
Misread(n) ==
  \/ \E u \in DOMAIN n.uplinks :
       \/ n.uplinks[u].match = {"bad"}
       \/ n.uplinks[u].source = "static" /\ n.uplinks[u].static \in {{""}, {"bad"}, {"long"}}
  \/ Cardinality(FromRoutes(n)) > 1 /\ \E u \in FromRoutes(n) : n.uplinks[u].match = {""}

\* A subnet whose length is written with a 0 before it: the program reads it, and the
\* module takes it for no /64.
OnlyTheModuleMinds(c) ==
  \E n \in c.nptv6 : \E s \in DOMAIN n.subnets : n.subnets[s] = "padded"

\* What the assertions do not see: two tables of one name, a text that is there and is
\* empty or cannot be parsed, a prefix that does not fit or whose network is no ULA, and a
\* duration that comes to nothing.
OnlyTheProgramSees(c) ==
  \/ ~ValidNftTables(c) \/ "slight" \in Durations(c)
  \/ \E k \in DOMAIN c.gateways : \E h \in c.gateways[k].health :
       \E p \in {h.probe} \cup h.probe6 : p.needs = "malformed"
  \/ \E n \in c.nptv6 :
       \/ n.internal \notin {"ula", "gua", "wideula"} \/ (n.internal = "wideula" /\ ~n.allowNonULA)
       \/ \E s \in DOMAIN n.subnets : n.subnets[s] \in {"outside", "length"}
       \/ Misread(n)

\* route-balancer.nix:526-550 "mirrors" the checks of the program, for what they let
\* through "would evaluate here and then restart-loop the unit instead".  What the
\* program would refuse is refused when the host is built, unless only the program can
\* see it; and the module is no stricter than the program, but where there is no
\* gateway, for rules that name none, for a /064 and for values outside an option's type.
ValidatorsAgree ==
  /\ unit = "failed" => OnlyTheProgramSees(SetDefaults(options))
  /\ unit = "rejected" /\ WellTyped(options) /\ GatewaysAreNamed(options)
       /\ options.gateways # <<>> /\ ~OnlyTheModuleMinds(options)
       => ~Accepted(SetDefaults(options))
=============================================================================
