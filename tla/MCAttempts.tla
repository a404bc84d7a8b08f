----------------------------- MODULE MCAttempts -----------------------------
EXTENDS Attempts

Quiet == [orphans |-> 0, crashes |-> 0, edits |-> 0, deaths |-> 0, findings |-> 0,
          holds |-> 0, hasty |-> 0, takeovers |-> 0, leads |-> 0]
Scenes == [orphans : 0 .. 1, crashes : 0 .. 1, edits : {1}, deaths : 0 .. 1, findings : 0 .. 1,
           holds : 0 .. 1, hasty : {0}, takeovers : {0}, leads : 0 .. 1]

MCLaunchers == 1 .. 2

\* Every two of the mishaps, uncommitted work among them.
MCBudgets ==
    {b \in Scenes : b.orphans + b.crashes + b.deaths + b.findings + b.holds + b.leads <= 2}
    \union {[Quiet EXCEPT !.crashes = 1, !.deaths = 1, !.leads = 1, !.edits = 1],
            [Quiet EXCEPT !.orphans = 1, !.holds = 1, !.hasty = 1],
            [Quiet EXCEPT !.crashes = 1, !.holds = 1, !.takeovers = 1],
            [Quiet EXCEPT !.crashes = 1, !.findings = 1, !.holds = 1]}

TwoHolds == {[Quiet EXCEPT !.holds = 2]}
=============================================================================
