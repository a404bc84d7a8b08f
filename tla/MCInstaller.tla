---------------------------- MODULE MCInstaller ----------------------------
\* Instances of Installer: what is installed at first, and what is asked.
EXTENDS Installer, TLC

CONSTANTS u1, u2, u3

At1(by) == [by |-> by, version |-> 1, config |-> {}, extension |-> "none"]
Either == {Absent, At1("release"), At1("source")}
Released == {At1("release")}

Ask(kind, command, versions) == [kind : {kind}, command : {command}, version : versions]
All == Ask("cli", "install", {2}) \union Ask("cli", "update", 1 .. 2) \union Ask("script", "update", {2})
Interchangeable == Permutations(Updaters)

Updates == Ask("cli", "update", 1 .. 2)
=============================================================================
