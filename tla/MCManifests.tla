------------------------------ MODULE MCManifests ------------------------------
\* Every field of both schemas, alone in the smallest manifest that has it, and all at once.
EXTENDS Manifests

MCMaxRuns == 2
=============================================================================
