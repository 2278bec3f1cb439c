------------------------------ MODULE PoolConfig ------------------------------
(***************************************************************************)
(* What the operator configures, and what the program makes of it: the     *)
(* command `config check' (CheckConfig), and New, which loads the          *)
(* environment, pools.yaml, the WireGuard bundle and egress-routing.yaml   *)
(* before the service starts.                                              *)
(*                                                                         *)
(* A country is written in some Text; Folded is the text after TrimSpace   *)
(* and ToLower or ToUpper.  An error carries no more than that it is one.  *)
(* The variables TUNNEL_POOL_POOLS_FILE and so on name the files that were *)
(* checked, as in the generated Compose file.  NewCellSpawner, which       *)
(* connects to docker, is outside the model.                               *)
(***************************************************************************)
EXTENDS Integers

CONSTANTS
  Names,     \* names the files use for pools
  NoName,    \* the empty string
  Confs,     \* basenames of WireGuard configurations
  Texts,     \* how countries are written
  Folded,    \* the country of each text
  Codes,     \* the countries that are two ASCII letters
  Setups     \* the configurations operators write

\* f is a function from some elements of D to R: a Go map.
IsMap(f, D, R) == DOMAIN f \subseteq D /\ f \in [DOMAIN f -> R]

\* poolEntry.  The order and the repetition of configs only matter to pickConf.
IsEntry(e) ==
  /\ e.configs \subseteq Confs
  /\ IsMap(e.exits, Confs, Texts)
  /\ e.fallback \in Names \cup {NoName}

\* A listen address, or one that is handed to clients.
Address == [public : BOOLEAN, host : BOOLEAN, port : Int]

Env == [defaultPool : Names \cup {NoName}, addresses : SUBSET Address, leaseTTL : Int,
        socksPort : Int, controlPort : Int, scope : {"unset", "set"}, token : {"unset", "set"}]

\* pools.yaml, the bundle, egress-routing.yaml, the token of the file .env and the
\* environment of the process, which has a token of its own.
IsSetup(s) ==
  /\ DOMAIN s.pools \subseteq Names /\ \A n \in DOMAIN s.pools : IsEntry(s.pools[n])
  /\ s.bundle \subseteq Confs
  /\ IsMap(s.countries, Texts, Names) /\ s.defaultPool \in Names \cup {NoName}
  /\ s.token \in {"unset", "set"} /\ s.env \in Env

ASSUME SetupsAssumption ==
  /\ NoName \notin Names
  /\ DOMAIN Folded = Texts
  /\ \A s \in Setups : IsSetup(s)

VARIABLES
  setup,    \* the files and the environment
  checked,  \* what `config check' said of them: "no", "ok" or "failed"
  booted,   \* how New ended: "no", "ok" or "failed"
  specs,    \* the pools New built
  router    \* the router New built

configVars == <<setup, checked, booted, specs, router>>

NoRouter == [countries |-> [k \in {} |-> NoName], defaultPool |-> NoName]

ConfigInit ==
  /\ setup \in Setups
  /\ checked = "no" /\ booted = "no"
  /\ specs = [n \in {} |-> NoName] /\ router = NoRouter

-----------------------------------------------------------------------------
(***************************************************************************)
(* pools.yaml                                                              *)
(***************************************************************************)

\* normalizeExitCountries: the codes belong to configurations of the pool.
ExitCountriesValid(entry) ==
  \A c \in DOMAIN entry.exits : c \in entry.configs /\ Folded[entry.exits[c]] \in Codes

\* The body of the loop of buildSpecs.
EntryValid(entry, bundle) ==
  /\ entry.configs # {}
  /\ entry.configs \subseteq bundle
  /\ ExitCountriesValid(entry)

\* The spec buildSpecs makes of an entry.
SpecOf(entry) ==
  [entry EXCEPT !.exits = [c \in DOMAIN entry.exits |-> Folded[entry.exits[c]]]]

\* Mutant of FallbacksValid: fallbacks are not looked up.
AnyFallback(pools) == TRUE

\* validateFallbacks.  A pool may be its own fallback.
FallbacksValid(pools) ==
  \A n \in DOMAIN pools : pools[n].fallback \in DOMAIN pools \cup {NoName}

\* LoadPoolSpecs succeeds.
PoolsLoad(s) ==
  /\ DOMAIN s.pools # {}
  /\ \A n \in DOMAIN s.pools : EntryValid(s.pools[n], s.bundle)
  /\ FallbacksValid(s.pools)

-----------------------------------------------------------------------------
(***************************************************************************)
(* egress-routing.yaml                                                     *)
(***************************************************************************)

\* The file's default pool, or else the one that is passed.
DefaultPool(s, fallbackDefault) ==
  IF s.defaultPool = NoName THEN fallbackDefault ELSE s.defaultPool

\* LoadRouter succeeds.
RoutesLoad(s, fallbackDefault) ==
  /\ \A t \in DOMAIN s.countries : s.countries[t] \in DOMAIN s.pools
  /\ DefaultPool(s, fallbackDefault) \in DOMAIN s.pools \cup {NoName}

\* The routers LoadRouter may build: of two spellings of a country, the one Go's
\* map iteration comes to last counts.
Routers(s, fallbackDefault) ==
  LET keys == {Folded[t] : t \in DOMAIN s.countries}
  IN  {[countries |-> m, defaultPool |-> DefaultPool(s, fallbackDefault)] :
         m \in {f \in [keys -> Names] : \A k \in keys :
                  \E t \in DOMAIN s.countries : Folded[t] = k /\ f[k] = s.countries[t]}}

\* Router.Resolve: the pool of a country, NoName for ErrInvalidCountry.
Resolve(r, country) ==
  IF Folded[country] \in DOMAIN r.countries THEN r.countries[Folded[country]]
  ELSE r.defaultPool

-----------------------------------------------------------------------------
(***************************************************************************)
(* The environment, and the two commands                                   *)
(***************************************************************************)

MaxPort == 65535

Ports == 1..MaxPort

\* validateTCPAddress: an address for clients needs a host.
AddressValid(a) == a.port \in Ports /\ (a.public => a.host)

\* LoadConfig.
EnvLoads(env) ==
  /\ \A a \in env.addresses : AddressValid(a)
  /\ env.leaseTTL > 0
  /\ env.socksPort \in Ports /\ env.controlPort \in Ports
  /\ env.socksPort # env.controlPort
  /\ env.token = "set" /\ env.scope = "set"

\* CheckConfig reads the files only.
Check ==
  /\ checked = "no"
  /\ checked' = IF setup.token = "set" /\ PoolsLoad(setup) /\ RoutesLoad(setup, NoName)
                THEN "ok" ELSE "failed"
  /\ UNCHANGED <<setup, booted, specs, router>>

\* Mutant of NewLoads: the default of the environment alone is used.
EnvDefaultNewLoads(s) ==
  /\ EnvLoads(s.env) /\ PoolsLoad(s)
  /\ RoutesLoad([s EXCEPT !.defaultPool = NoName], s.env.defaultPool)

\* New builds the service.
NewLoads(s) ==
  /\ EnvLoads(s.env) /\ PoolsLoad(s)
  /\ RoutesLoad(s, s.env.defaultPool)

Boots ==
  /\ booted = "no" /\ NewLoads(setup)
  /\ booted' = "ok"
  /\ specs' = [n \in DOMAIN setup.pools |-> SpecOf(setup.pools[n])]
  /\ router' \in Routers(setup, setup.env.defaultPool)
  /\ UNCHANGED <<setup, checked>>

FailsToBoot ==
  /\ booted = "no" /\ ~NewLoads(setup)
  /\ booted' = "failed"
  /\ UNCHANGED <<setup, checked, specs, router>>

ConfigNext == Check \/ Boots \/ FailsToBoot

ConfigSpec == ConfigInit /\ [][ConfigNext]_configVars

-----------------------------------------------------------------------------

\* A service that has booted can route: whatever country a request names, in
\* whatever spelling, the answer is a pool it has, with at least one
\* configuration, all of them in the bundle, and with a fallback it has too, if
\* any; and only without a default is there no answer (LoadPoolSpecs, LoadRouter,
\* Resolve).
BootedServes ==
  booted = "ok" =>
    \A t \in Texts :
      LET p == Resolve(router, t)
      IN  /\ p = NoName => router.defaultPool = NoName
          /\ p # NoName => /\ p \in DOMAIN specs
                           /\ specs[p].configs # {}
                           /\ specs[p].configs \subseteq setup.bundle
                           /\ specs[p].fallback \in DOMAIN specs \cup {NoName}

\* Files that `config check' has passed boot, in an environment that is valid by
\* itself, if the default pool of that environment exists or is not needed: the
\* check looks at the default of the routing file only.
CheckedBoots ==
  checked = "ok" /\ booted = "failed" =>
    \/ ~EnvLoads(setup.env)
    \/ /\ setup.defaultPool = NoName
       /\ setup.env.defaultPool \notin DOMAIN setup.pools \cup {NoName}

=============================================================================
