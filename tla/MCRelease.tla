----------------------------- MODULE MCRelease -----------------------------
EXTENDS Release

CONSTANTS f1, f2

Scene(mode, kills, heads, verdicts, evidence, lapses, provider) ==
    [mode |-> mode, kills |-> kills, heads |-> heads, verdicts |-> verdicts,
     evidence |-> evidence, lapses |-> lapses, provider |-> provider]

\* Kills, new commits, changed verdicts and evidence, expired proofs, provider failures.
MCBudgets == {Scene("approval-required", 1, 0, 0, 0, 1, 0), Scene("automatic", 0, 1, 0, 0, 0, 0),
              Scene("automatic", 1, 0, 1, 0, 0, 0), Scene("automatic", 0, 0, 0, 0, 1, 1),
              Scene("automatic", 1, 0, 0, 1, 0, 0), Scene("approval-required", 1, 0, 0, 0, 0, 1)}

\* A kill and a new commit.
KillAndCommit == {Scene("approval-required", 1, 1, 0, 0, 0, 0)}

MCRefused == {<<f2, 2>>}
MCReversible == {f1} \X (1 .. LastCommit)
=============================================================================
