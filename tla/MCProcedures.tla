----------------------------- MODULE MCProcedures -----------------------------
(***************************************************************************)
(* Small instances of the procedures for TLC.                              *)
(***************************************************************************)
EXTENDS Procedures

CONSTANTS e1, e2, e3

\* One file of the operator and two generated ones.
ThreeFiles == <<"pools", "compose", "hostPorts">>

\* Two spellings of one country, and a word that is no country.
Spelling == [t \in {"us", " US", "usa"} |-> IF t = "usa" THEN "usa" ELSE "us"]

\* Pool p is written in every way, right or wrong; "x" is defined nowhere.
AnyEntry ==
  [configs : {{}, {"w1"}, {"w1", "w2"}},
   exits : {[c \in {} |-> "us"], [c \in {"w1"} |-> " US"], [c \in {"w1"} |-> "usa"],
            [c \in {"w2"} |-> "us"]},
   fallback : {"", "p", "q", "x"}]

QEntry == [configs |-> {"w1"}, exits |-> [c \in {} |-> "us"], fallback |-> "p"]

SomePools ==
  {[n \in {} |-> QEntry], [n \in {"q"} |-> QEntry]}
    \cup {[n \in {"p"} |-> e] : e \in AnyEntry}
    \cup {[n \in {"p", "q"} |-> IF n = "p" THEN e ELSE QEntry] : e \in AnyEntry}

GoodEnv ==
  [defaultPool |-> "", addresses |-> {[public |-> TRUE, host |-> TRUE, port |-> 1]},
   leaseTTL |-> 1, socksPort |-> 1, controlPort |-> MaxPort, scope |-> "set",
   token |-> "set"]

\* The environments LoadConfig accepts, and one for each of its refusals.
SomeEnvs ==
  {[GoodEnv EXCEPT !.defaultPool = d] : d \in {"", "q"}}
    \cup {[GoodEnv EXCEPT !.leaseTTL = 0], [GoodEnv EXCEPT !.socksPort = 0],
          [GoodEnv EXCEPT !.controlPort = MaxPort + 1], [GoodEnv EXCEPT !.controlPort = 1],
          [GoodEnv EXCEPT !.scope = "unset"], [GoodEnv EXCEPT !.token = "unset"],
          [GoodEnv EXCEPT !.addresses = {[public |-> TRUE, host |-> FALSE, port |-> 1]}]}

SomeSetups ==
  [pools : SomePools, bundle : {{"w1"}, {"w1", "w2"}},
   countries : UNION {[S -> {"p", "q", "x"}] : S \in SUBSET {"us", " US"}},
   defaultPool : {"", "p", "x"}, token : {"set"},
   env : {[GoodEnv EXCEPT !.defaultPool = d] : d \in {"", "q"}}]
  \cup
  [pools : {[n \in {"q"} |-> [QEntry EXCEPT !.fallback = ""]]}, bundle : {{"w1"}},
   countries : {[t \in {"us"} |-> "q"]}, defaultPool : {""},
   token : {"unset", "set"}, env : SomeEnvs]

ThreeEndpoints == {e1, e2, e3}

OneEndpoint == {e1}

=============================================================================
