--------------------------- MODULE MCRoleControl ---------------------------
EXTENDS RoleControl

Scenario(starts, stops, requests, exits, faults) ==
    [starts |-> starts, stops |-> stops, requests |-> requests, exits |-> exits,
     faults |-> faults]

\* Two controls, or one twice, between a start and a stop; a result past its retention;
\* two starts that race; two faults in one restart.
MCBudgets == {Scenario(1, 1, 2, 0, 1), Scenario(1, 0, 3, 0, 0), Scenario(2, 0, 1, 1, 1),
              Scenario(1, 0, 1, 0, 2)}
=============================================================================
