----------------------------- MODULE MCStaging -----------------------------
\* Instances of Staging: scans of one file that race for one output path.
EXTENDS Staging, TLC

\* The faults that strike before the result is visible, or stop the process.
BeforeRename == {"io", "cancel", "kill", "power"}

\* One unlucky sync of the results root, nothing else.
OnlyParentSync == {"parentsync"}

Symmetry == Permutations(Scans)
=============================================================================
