---------------------------- MODULE MCReleaseJob ----------------------------
EXTENDS ReleaseJob

Scene(passes, workers, lags, calls, flips) ==
    [passes |-> passes, workers |-> workers, lags |-> lags, calls |-> calls, flips |-> flips]

\* Kills of the pass and of the worker, one held up, a lost answer, the tracker's changes.
MCBudgets == {Scene(1, 1, 0, 0, 0), Scene(1, 0, 0, 0, 1), Scene(0, 1, 0, 0, 1), Scene(0, 0, 1, 0, 0),
              Scene(0, 0, 0, 1, 1), Scene(1, 0, 0, 1, 0), Scene(0, 0, 0, 0, 2)}
=============================================================================
