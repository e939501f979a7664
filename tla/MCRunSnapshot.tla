---------------------------- MODULE MCRunSnapshot ----------------------------
(* The snapshot of one run, for TLC: two processes, two deploys, a crash.  The *)
(* second pipeline needs the second catalog, whereas the first one does with   *)
(* either: a deploy that has replaced the pipeline only leaves a torn pair.    *)
EXTENDS RunSnapshot

CONSTANTS p1, p2, c1, c2

Every == Pipelines \X Catalogs
Additive == Every \ {<<p2, c1>>}

MCInit == Init /\ source = [pipeline |-> p1, catalog |-> c1, image |-> source.image]
MCSpec == MCInit /\ [][Next]_vars /\ Fairness

\* Without operators, whose entry point never loads what exists.
IngestNext == Next /\ \A p \in Submitters : mode'[p] # "ensure"
IngestSpec == MCInit /\ [][IngestNext]_vars /\ Fairness
=============================================================================
