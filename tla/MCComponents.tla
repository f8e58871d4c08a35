---------------------------- MODULE MCComponents ----------------------------
(***************************************************************************)
(* Instances for TLC of the modules that share no state with each other:   *)
(* the inside of a check (stages, verdicts, live table) and the machinery  *)
(* around the library (daily production, JSON store, mount switch, setup). *)
(* They lie side by side in one state space: `part` says which of them     *)
(* moves, and the others rest at one of their initial states.              *)
(***************************************************************************)
EXTENDS CheckPipeline, Verdicts, LiveBatch, Produce, JsonStore, MountSwitch, SetupLayout

VARIABLE part
allvars == <<part, vars, vvars, bvars, pvars, jvars, svars, lvars>>

\* Correlations below the threshold, above it, and above it with the other sign.
Correlations == {-3, 1, 2}

Part == {"stages", "verdicts", "batch", "produce", "store", "mount", "setup"}

\* How each part rests.  The batch rests with nothing to wait for.
RestVerdicts == judge = "none" /\ comp = Off /\ corr = Off /\ fire = Off
RestBatch == /\ worker = [r \in Row |-> "gone"] /\ future = [r \in Row |-> "pending"]
             /\ queue = <<>> /\ row = [r \in Row |-> "done"] /\ remaining = 0
             /\ watcher = [seen |-> {}, made |-> {}]
RestProduce == PInit /\ (\A f \in Factor : status[f] = "active" /\ prodxml[f] = Production)
RestStore == JInit /\ file = NoStore
RestMount == SInit /\ link = "A"
RestSetup ==
    /\ site = [form |-> [d \in Directory \cup {"dump", "legacy"} |-> "right"],
               group |-> [g \in Group |-> "right"], owned |-> Directory]
    /\ outside = Outside
    /\ step = 0 /\ apply = FALSE /\ report = <<>> /\ setups = 0

\* Bound: with two pools the factor's own metrics pass the gates.
GatesWithOnePool == judge = "correlation" /\ Len(corr.pools) = 2 => corr.own = "good"
\* Bound: at most one of the two groups is not what it should be, and at most one
\* path holds something of another kind.
FewOdd == /\ \E g \in Group : site.group[g] = "right"
          /\ Cardinality({d \in DOMAIN site.form : site.form[d] = "wrong"}) <= 1

CInit ==
    /\ part \in Part
    /\ Init
    /\ IF part = "verdicts" THEN VInit /\ GatesWithOnePool ELSE RestVerdicts
    /\ IF part = "batch" THEN BInit ELSE RestBatch
    /\ IF part = "produce" THEN PInit ELSE RestProduce
    /\ IF part = "store" THEN JInit ELSE RestStore
    /\ IF part = "mount" THEN SInit ELSE RestMount
    /\ IF part = "setup" THEN LInit /\ FewOdd ELSE RestSetup

CNext ==
    \/ part = "stages" /\ Next /\ UNCHANGED <<part, vvars, bvars, pvars, jvars, svars, lvars>>
    \/ part = "verdicts" /\ VNext /\ UNCHANGED <<part, vars, bvars, pvars, jvars, svars, lvars>>
    \/ part = "batch" /\ BNext /\ UNCHANGED <<part, vars, vvars, pvars, jvars, svars, lvars>>
    \/ part = "produce" /\ PNext /\ UNCHANGED <<part, vars, vvars, bvars, jvars, svars, lvars>>
    \/ part = "store" /\ JNext /\ UNCHANGED <<part, vars, vvars, bvars, pvars, svars, lvars>>
    \/ part = "mount" /\ SNext /\ UNCHANGED <<part, vars, vvars, bvars, pvars, jvars, lvars>>
    \/ part = "setup" /\ LNext /\ UNCHANGED <<part, vars, vvars, bvars, pvars, jvars, svars>>

\* The fairness is that of the batch, whose steps exist only where it moves.
CSpec == CInit /\ [][CNext]_allvars /\ (part = "batch" => BFair)
=============================================================================
