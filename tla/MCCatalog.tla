----------------------------- MODULE MCCatalog -----------------------------
(***************************************************************************)
(* What keeps the runtime's metadata, for TLC.  The two modules share no   *)
(* state, so a behaviour is about one of them.  DatasetCatalog: two        *)
(* overlapping calls, two names and two sources, which are                 *)
(* interchangeable.  ConfiguredRuntime: edits between configurations that  *)
(* move a connector, rename a dataset with the same alias or source, drop  *)
(* what an agent needs, and take a connector's capability to sync.         *)
(***************************************************************************)
EXTENDS DatasetCatalog, ConfiguredRuntime, TLC

CONSTANTS w1, w2, n1, n2, k1, k2, key

TwoWorkers == {w1, w2}
TwoNames   == {n1, n2}
TwoKeys    == {k1, k2}

Connector(n, u, s)    == [name |-> n, url |-> u, sync |-> s]
DatasetOf(n, c)       == [name |-> n, conn |-> c, key |-> key]
Configuration(c, d, m, a, auto) == [conns |-> c, data |-> d, models |-> m, agent |-> a, autoApply |-> auto]
SomeConfigs ==
    {Configuration({Connector("a", 1, TRUE)}, {DatasetOf("x", "a")}, {"m"}, "m", TRUE),
     Configuration({Connector("a", 2, TRUE)}, {DatasetOf("y", "a")}, {}, "y", TRUE),
     Configuration({Connector("b", 1, TRUE)}, {}, {"m"}, Unset, FALSE),
     Configuration({Connector("b", 2, TRUE)}, {DatasetOf("x", "b")}, {}, Unset, TRUE),
     Configuration({Connector("a", 1, FALSE)}, {}, {}, "m", TRUE)}
SameAliases == [n \in DataNames |-> "x"]

Symmetric == Permutations(TwoWorkers) \cup Permutations(TwoNames) \cup Permutations(TwoKeys)

-----------------------------------------------------------------------------

ConfigOff  == /\ metaStore = "off" /\ schema = "empty" /\ up = FALSE
              /\ config = CHOOSE c \in Configs : TRUE
              /\ inForce = config /\ changes = 0
              /\ connRows = {} /\ dataRows = {} /\ modelRows = {} /\ regConns = {} /\ regModels = {}

\* Next to ConfiguredRuntime, the catalogue rests in its initial state.
MetadataInit == Init /\ (ConfigOff \/ CfgInit)

MetadataNext ==
    \/ metaStore = "off" /\ Next /\ UNCHANGED cfgVars
    \/ metaStore # "off" /\ CfgNext /\ UNCHANGED vars

MetadataSpec == MetadataInit /\ [][MetadataNext]_<<vars, cfgVars>>
=============================================================================
