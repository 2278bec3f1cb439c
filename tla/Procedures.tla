------------------------------ MODULE Procedures ------------------------------
(***************************************************************************)
(* The procedures that run by themselves, before or beside the service:    *)
(* `config init', the loading of the configuration, the resolution of the  *)
(* start order, and the preflight check of a client.  They share no state: *)
(* a behaviour follows one of them, and the others stand still.            *)
(***************************************************************************)
EXTENDS Bootstrap, PoolConfig, StartOrder, Preflight

VARIABLE procedure

SomeSetup == CHOOSE s \in Setups : TRUE

NothingListed == [s \in Services |-> [t \in Services \cup External |-> 0]]

ProceduresInit ==
  /\ \/ procedure = "init" /\ setup = SomeSetup /\ dependencies = NothingListed /\ reroutes = "yes"
     \/ procedure = "config" /\ dependencies = NothingListed /\ reroutes = "yes"
     \/ procedure = "order" /\ setup = SomeSetup /\ reroutes = "yes"
     \/ procedure = "preflight" /\ setup = SomeSetup /\ dependencies = NothingListed
  /\ BootInit /\ ConfigInit /\ OrderInit /\ PreflightInit

Inits == /\ procedure = "init" /\ BootNext
         /\ UNCHANGED <<procedure, configVars, orderVars, preflightVars>>

Configures == /\ procedure = "config" /\ ConfigNext
              /\ UNCHANGED <<procedure, bootVars, orderVars, preflightVars>>

Orders == /\ procedure = "order" /\ OrderNext
          /\ UNCHANGED <<procedure, bootVars, configVars, preflightVars>>

Preflights == /\ procedure = "preflight" /\ PreflightNext
              /\ UNCHANGED <<procedure, bootVars, configVars, orderVars>>

ProceduresNext == Inits \/ Configures \/ Orders \/ Preflights

ProceduresSpec ==
  ProceduresInit /\
    [][ProceduresNext]_<<procedure, bootVars, configVars, orderVars, preflightVars>>

=============================================================================
