------------------------------ MODULE TaskHold ------------------------------
(***************************************************************************)
(* The hold registry of bin/task-hold.py: what one locked sync makes of a   *)
(* task's hold when it sees the task in a tracker snapshot, and what a      *)
(* check of that hold lets through.                                         *)
(***************************************************************************)

Statuses == {"Planned", "Active", "Review", "Blocked"}

\* "none" is a task without an entry in the registry.
HoldStates == {"blocked", "resume-review-pending", "manual-takeover"}
Holds == HoldStates \cup {"none", "resumed"}

\* A human gave the task back, or kept working on it.
Released(h, s) ==
    IF h \in {"blocked", "manual-takeover"}
    THEN IF s = "Planned" THEN "resume-review-pending" ELSE "manual-takeover"
    ELSE h

(* The resume barrier of a task that is back in the queue falls when the     *)
(* verdicts on the communication since the block are in and the previous     *)
(* worktree is clean, which "cleared" stands for.                            *)
AfterSync(h, s, cleared) ==
    IF s = "Blocked" THEN "blocked"
    ELSE LET r == Released(h, s) IN
         IF r # "resume-review-pending" THEN r
         ELSE IF s # "Planned" THEN "manual-takeover"
         ELSE IF cleared THEN "resumed" ELSE r

Held(h) == h \in HoldStates
=============================================================================
