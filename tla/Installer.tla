----------------------------- MODULE Installer -----------------------------
(***************************************************************************)
(* The two updaters of an installed skill: the release CLI                 *)
(* (src/startup_factory_cli/installer.py) and the source updater           *)
(* (bin/update-installed-skill.sh). Each takes a lock beside the install   *)
(* directory, the CLI an flock on a file, the script a directory of the    *)
(* same name; looks at what is installed; builds the replacement in a      *)
(* stage; and swaps: the old directory is renamed to a backup, the stage   *)
(* to the install directory, the backup removed.                           *)
(*                                                                         *)
(* An action is one filesystem effect. An updater may be killed before     *)
(* any, and an effect may fail, which it undoes. Files are abstracted to   *)
(* the configuration, by the edits it contains, and one extension.         *)
(***************************************************************************)
EXTENDS Naturals, FiniteSets

CONSTANTS Updaters,    \* the updaters that are run, once each
          Operations,  \* what they may be asked: kind, command and version
          Placed,      \* what may be installed at first
          Extended,    \* the versions that ship the extension
          MaxEdits,    \* bound: edits of the project's files
          MaxFailures, \* bound: effects that fail
          MaxKills     \* bound: kills

Absent == [by |-> "none", version |-> 0, config |-> {}, extension |-> "none"]
Contents == [by : {"release", "source"}, version : Nat, config : SUBSET (Nat \ {0}),
             extension : {"none", "shipped", "own"}]

ASSUME InstallerAssumption ==
    /\ IsFiniteSet(Updaters)
    /\ Operations \subseteq [kind : {"cli", "script"}, command : {"install", "update"},
                             version : Nat]
    /\ Placed \subseteq {c \in Contents : c.config = {}} \union {Absent}
    /\ Extended \subseteq Nat
    /\ MaxEdits \in Nat /\ MaxFailures \in Nat /\ MaxKills \in Nat

VARIABLES place,    \* the install directory
          project,  \* the edits made, those made in no updater's way, and whether an own
                    \* extension was added so
          name,     \* the entry of the lock: no entry 0, a file by its inode, or a directory
          flock,    \* the updaters that hold the flock of the file they opened
          op,       \* what each updater was asked
          pc,       \* where it is
          inode,    \* the lock file it opened
          seen,     \* what it read of the install directory
          stage,    \* what it built
          backup,   \* what it moved out of the way
          met,      \* history: two updaters have been at work beside each other
          budget    \* edits, failures and kills left

locks == <<name, flock, inode>>
copies == <<seen, stage, backup>>
installerVars == <<place, project, locks, op, pc, copies, met, budget>>

Directory == Cardinality(Updaters) + 1
Inodes == 1 .. Cardinality(Updaters)

InstallerInit ==
    /\ place \in Placed
    /\ project = [edits |-> 0, kept |-> {}, own |-> place.extension = "own"]
    /\ name = 0
    /\ flock = {}
    /\ op \in [Updaters -> Operations]
    /\ pc = [p \in Updaters |-> "start"]
    /\ inode = [p \in Updaters |-> 0]
    /\ seen = [p \in Updaters |-> Absent]
    /\ stage = [p \in Updaters |-> Absent]
    /\ backup = [p \in Updaters |-> Absent]
    /\ met = FALSE
    /\ budget = [edits |-> MaxEdits, failures |-> MaxFailures, kills |-> MaxKills]

Cli(p) == op[p].kind = "cli"
Spend(what) == budget[what] > 0 /\ budget' = [budget EXCEPT ![what] = @ - 1]
Goto(p, at) == pc' = [pc EXCEPT ![p] = at]

At(p, at) == pc[p] = at

\* Where an updater is past its lock, and not through.
Critical == {"locked", "snapped", "staged", "moved", "undo", "placed", "leaving"}
Working == {p \in Updaters : pc[p] \in Critical}

------------------------------------------------------------------------------
(* What is looked at. *)

Ships(p) == op[p].version \in Extended

\* Mutant: an update takes any version.
NotOlder_Any(p) == TRUE
NotOlder(p) == place.by = "release" => op[p].version >= place.version

\* An update is refused on an installation of the other updater.
ReleaseManaged == place.by = "release"

CliAdmitted(p) ==
    \/ op[p].command = "install" /\ place = Absent
    \/ op[p].command = "update" /\ ReleaseManaged /\ NotOlder(p)
ScriptAdmitted(p) == ~ReleaseManaged
UpdateAdmitted(p) == IF Cli(p) THEN CliAdmitted(p) ELSE ScriptAdmitted(p)

\* An own extension is preserved, and refused if the new version ships its name.
Preserved == place.extension = "own"
Collides(p) == Preserved /\ Ships(p)

\* What the version ships, and over it what is preserved.
Built(p) ==
    [by |-> IF Cli(p) THEN "release" ELSE "source", version |-> op[p].version,
     config |-> place.config,
     extension |-> IF Ships(p) THEN "shipped" ELSE IF Preserved THEN "own" ELSE "none"]

Start(p) ==
    /\ At(p, "start")
    /\ Goto(p, IF UpdateAdmitted(p) /\ (Cli(p) => ~Collides(p)) THEN "ready" ELSE "done")
    /\ UNCHANGED <<place, project, locks, op, copies, met, budget>>

------------------------------------------------------------------------------
(* The lock. *)

NewInode == Cardinality({inode[q] : q \in Updaters} \ {0}) + 1

\* _parent_lock: a directory of that name is refused.
OpenLock(p) ==
    /\ At(p, "ready") /\ Cli(p)
    /\ IF name = Directory THEN Goto(p, "done") /\ UNCHANGED <<name, inode>>
       ELSE LET i == IF name = 0 THEN NewInode ELSE name IN
            /\ name' = i
            /\ inode' = [inode EXCEPT ![p] = i]
            /\ Goto(p, "opened")
    /\ UNCHANGED <<place, project, flock, op, copies, met, budget>>

\* Refused if another holds the file, or if it had lost its name when its links were counted.
Flock(p) ==
    /\ At(p, "opened")
    /\ \/ /\ \A q \in flock : inode[q] # inode[p]
          /\ flock' = flock \union {p} /\ met' = (met \/ Working # {}) /\ Goto(p, "locked")
       \/ /\ name # inode[p] \/ \E q \in flock : inode[q] = inode[p]
          /\ Goto(p, "done") /\ UNCHANGED <<flock, met>>
    /\ UNCHANGED <<place, project, name, inode, op, copies, budget>>

Untaken == name = 0

\* mkdir: an entry of any type is refused.
MakeLock(p) ==
    /\ At(p, "ready") /\ ~Cli(p)
    /\ IF Untaken THEN name' = Directory /\ met' = (met \/ Working # {}) /\ Goto(p, "locked")
       ELSE UNCHANGED <<name, met>> /\ Goto(p, "done")
    /\ UNCHANGED <<place, project, flock, inode, op, copies, budget>>

Release(p) ==
    /\ At(p, "leaving")
    /\ IF Cli(p) THEN flock' = flock \ {p} /\ UNCHANGED name /\ Goto(p, "unlocked")
       ELSE name' = 0 /\ UNCHANGED flock /\ Goto(p, "done")
    /\ UNCHANGED <<place, project, inode, op, copies, met, budget>>

\* The name is removed whatever file it has come to stand for; a directory is not.
Unlink(p) ==
    /\ At(p, "unlocked")
    /\ name' = IF name = Directory THEN name ELSE 0
    /\ Goto(p, "done")
    /\ UNCHANGED <<place, project, flock, inode, op, copies, met, budget>>

------------------------------------------------------------------------------
(* Under the lock: everything is looked at again. *)

\* snapshot_existing_target of the script, make_plan of the CLI.
Snapshot == place

Stage(p) ==
    /\ At(p, "locked")
    /\ IF UpdateAdmitted(p) /\ ~Collides(p)
       THEN /\ seen' = [seen EXCEPT ![p] = Snapshot]
            /\ stage' = [stage EXCEPT ![p] = Built(p)]
            /\ Goto(p, IF Cli(p) THEN "staged" ELSE "snapped")
       ELSE UNCHANGED <<seen, stage>> /\ Goto(p, "leaving")
    /\ UNCHANGED <<place, project, locks, op, backup, met, budget>>

\* Mutant: the second snapshot of the script is not compared.
Same_Any(p) == TRUE
Same(p) == Snapshot = seen[p]

Compare(p) ==
    /\ At(p, "snapped")
    /\ Goto(p, IF Same(p) THEN "staged" ELSE "leaving")
    /\ UNCHANGED <<place, project, locks, op, copies, met, budget>>

MoveOld(p) ==
    /\ At(p, "staged")
    /\ backup' = [backup EXCEPT ![p] = place]
    /\ place' = Absent
    /\ Goto(p, "moved")
    /\ UNCHANGED <<project, locks, op, seen, stage, met, budget>>

\* os.replace does not replace a directory that has entries; mv moves the stage into it.
PlaceNew(p) ==
    /\ At(p, "moved")
    /\ IF place = Absent THEN place' = stage[p] /\ Goto(p, "placed")
       ELSE UNCHANGED place /\ Goto(p, IF Cli(p) THEN "undo" ELSE "placed")
    /\ UNCHANGED <<project, locks, op, copies, met, budget>>

Undo(p) ==
    /\ At(p, "undo")
    /\ IF place = Absent
       THEN place' = backup[p] /\ backup' = [backup EXCEPT ![p] = Absent]
       ELSE UNCHANGED <<place, backup>>
    /\ Goto(p, "leaving")
    /\ UNCHANGED <<project, locks, op, seen, stage, met, budget>>

DropBackup(p) ==
    /\ At(p, "placed")
    /\ backup' = [backup EXCEPT ![p] = Absent]
    /\ Goto(p, "leaving")
    /\ UNCHANGED <<place, project, locks, op, seen, stage, met, budget>>

\* An error, or a signal that the updater handles.
Fail(p) ==
    /\ pc[p] \in {"locked", "snapped", "staged", "moved"} /\ Spend("failures")
    /\ Goto(p, IF pc[p] = "moved" THEN "undo" ELSE "leaving")
    /\ UNCHANGED <<place, project, locks, op, copies, met>>

------------------------------------------------------------------------------
\* The kernel drops the flock of a killed CLI; the directory of a killed script stays.
KillUpdater(p) ==
    /\ pc[p] \notin {"start", "done", "killed"} /\ Spend("kills")
    /\ flock' = flock \ {p}
    /\ Goto(p, "killed")
    /\ UNCHANGED <<place, project, name, inode, op, copies, met>>

\* Of the project: an edit of the configuration, or an extension of its own. One that is
\* made between an updater's last look and its renames is in that one's way.
Copied == \E p \in Updaters : pc[p] \in {"staged", "moved", "undo"}

Edit ==
    /\ place # Absent /\ Spend("edits")
    /\ \/ LET edit == project.edits + 1 IN
          /\ place' = [place EXCEPT !.config = @ \union {edit}]
          /\ project' = [project EXCEPT !.edits = edit,
                                        !.kept = IF Copied THEN @ ELSE @ \union {edit}]
       \/ /\ place.extension = "none" /\ ~project.own
          /\ place' = [place EXCEPT !.extension = "own"]
          /\ project' = [project EXCEPT !.own = ~Copied]
    /\ UNCHANGED <<locks, op, pc, copies, met>>

Swap(p) == Stage(p) \/ Compare(p) \/ MoveOld(p) \/ PlaceNew(p) \/ Undo(p) \/ DropBackup(p)
Lock(p) == OpenLock(p) \/ Flock(p) \/ MakeLock(p) \/ Release(p) \/ Unlink(p)

InstallerNext ==
    \/ \E p \in Updaters : Start(p) \/ Lock(p) \/ Swap(p) \/ Fail(p) \/ KillUpdater(p)
    \/ Edit

InstallerSpec == InstallerInit /\ [][InstallerNext]_installerVars

------------------------------------------------------------------------------
InstallerType ==
    /\ place \in Contents \union {Absent}
    /\ project \in [edits : Nat, kept : SUBSET (Nat \ {0}), own : BOOLEAN]
    /\ name \in {0, Directory} \union Inodes /\ flock \subseteq Updaters
    /\ op \in [Updaters -> Operations] /\ inode \in [Updaters -> {0} \union Inodes]
    /\ pc \in [Updaters -> Critical \union {"start", "ready", "opened", "unlocked", "done", "killed"}]
    /\ {seen, stage, backup} \subseteq [Updaters -> Contents \union {Absent}]
    /\ met \in BOOLEAN

\* The lock file of an updater at work has been unlinked, or is not the one of that name.
Nameless(p) == Cli(p) /\ inode[p] # name

\* Of two updaters at work beside each other, one has lost the name of its lock file
\* (installer.py:838-879, update-installed-skill.sh:953-957). The install directory is
\* missing only while its backup is there, of an updater between its renames or killed
\* there, even then. As long as no two have met, each edit of the project that was not in
\* an updater's way, and its own extension, are in the one or the other (installer.py:
\* 907-938, update-installed-skill.sh:965-968).
ProjectSurvives ==
    LET Away == {p \in Updaters : pc[p] \in {"moved", "undo", "killed"} /\ backup[p] # Absent}
        Left == {place} \union {backup[p] : p \in Away} IN
    /\ InstallerType
    /\ \A p, q \in Working : p = q \/ Nameless(p) \/ Nameless(q)
    /\ place = Absent /\ (\E p \in Updaters : seen[p] # Absent) => Away # {}
    /\ ~met => /\ project.kept \subseteq UNION {c.config : c \in Left}
               /\ project.own => \E c \in Left : c.extension = "own"

\* The installation that an update moved away is newer than the one it puts in its place.
Downgraded(p) == /\ pc[p] = "moved" /\ pc'[p] = "placed"
                 /\ backup[p].by = "release" /\ stage[p].version < backup[p].version

\* An update replaces a release by an older one only where two updaters have worked beside
\* each other: what was compared under the lock is otherwise what is moved away
\* (installer.py:1126-1151, 907-915).
NoLoneDowngrade == [][(\E p \in Updaters : Downgraded(p)) => met]_installerVars

\* "Downgrades are now refused unless --allow-downgrade says otherwise" (README.md:512).
NoDowngrade == [][\A p \in Updaters : ~Downgraded(p)]_installerVars
=============================================================================
