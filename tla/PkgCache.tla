------------------------------ MODULE PkgCache ------------------------------
(***************************************************************************)
(* The package manager (toolchain/pkg.cpp): the directories under          *)
(* ~/.agentc/pkg and the processes that resolve packages at the same time, *)
(* compilations that import one and users of `agentc get'.  There is no    *)
(* lock: whether a directory exists is all one process knows of another.   *)
(* A compilation hands over the path with its quotes, as the token has it; *)
(* the directory it looks for has the quotes in its name, and the shell    *)
(* takes them off the one it clones into.  HOME is set, and a URL comes     *)
(* without https://.                                                        *)
(***************************************************************************)
EXTENDS Naturals

CONSTANTS
  Packages,
  Compilations,   \* processes that resolve the path of an import
  Getters         \* processes of `agentc get'

Callers == Compilations \cup Getters

VARIABLES
  dir,       \* package -> its directory: absent, partial or whole
  phase,     \* caller -> idle, looking, cloning or sweeping; dead
  wanted,    \* caller -> the package it resolves
  answered,  \* caller -> what resolve returned last: "" (failed), or what it swept
  killed     \* packages of which a clone was killed

cacheVars == <<dir, phase, wanted, answered, killed>>

Quoted(c) == c \in Compilations

CacheInit ==
  /\ dir = [p \in Packages |-> "absent"]
  /\ phase = [c \in Callers |-> "idle"]
  /\ wanted \in [Callers -> Packages]
  /\ answered = [c \in Callers |-> "failed"]
  /\ killed = {}

Turn(c, from, to) == phase[c] = from /\ phase' = [phase EXCEPT ![c] = to]
Return(c, text) == answered' = [answered EXCEPT ![c] = text]

\* resolve, up to fs::exists: a directory with quotes in its name is never there.
Look(c) ==
  /\ Turn(c, "looking",
          IF ~Quoted(c) /\ dir[wanted[c]] # "absent" THEN "sweeping" ELSE "cloning")
  /\ UNCHANGED <<dir, wanted, answered, killed>>

\* git refuses a directory that is there already; else it makes one.
StartClone(c) ==
  /\ IF dir[wanted[c]] = "absent"
     THEN /\ Turn(c, "cloning", "fetching")
          /\ dir' = [dir EXCEPT ![wanted[c]] = "partial"]
          /\ UNCHANGED answered
     ELSE Turn(c, "cloning", "idle") /\ Return(c, "failed") /\ UNCHANGED dir
  /\ UNCHANGED <<wanted, killed>>

FinishClone(c) ==
  /\ Turn(c, "fetching", "sweeping")
  /\ dir' = [dir EXCEPT ![wanted[c]] = "whole"]
  /\ UNCHANGED <<wanted, answered, killed>>

\* Mutant of FailClone: resolve has made the directory itself, and git leaves it.
FailCloneOwn(c) ==
  /\ Turn(c, "fetching", "idle")
  /\ Return(c, "failed")
  /\ UNCHANGED <<dir, wanted, killed>>

\* git removes what it has made, and resolve returns nothing.
FailClone(c) ==
  /\ Turn(c, "fetching", "idle")
  /\ dir' = [dir EXCEPT ![wanted[c]] = "absent"]
  /\ Return(c, "failed")
  /\ UNCHANGED <<wanted, killed>>

\* The process is killed, git with it: the directory stays as it is.
Kill(c) ==
  /\ Turn(c, "fetching", "dead")
  /\ killed' = killed \cup {wanted[c]}
  /\ UNCHANGED <<dir, wanted, answered>>

\* get_agc_files and read_file: a directory that is not there has no files.
Sweep(c) ==
  /\ Turn(c, "sweeping", "idle")
  /\ Return(c, IF Quoted(c) \/ dir[wanted[c]] = "absent" THEN "nothing" ELSE dir[wanted[c]])
  /\ UNCHANGED <<dir, wanted, killed>>

Begin(c) == Turn(c, "idle", "looking") /\ UNCHANGED <<dir, wanted, answered, killed>>

Resolve(c) == \/ Look(c) \/ StartClone(c) \/ FinishClone(c) \/ FailClone(c)
              \/ Kill(c) \/ Sweep(c)

-----------------------------------------------------------------------------
(* Properties.                                                              *)

\* A directory that holds a part of a package is being filled, or was left by a
\* process that was killed: whatever the clones that fail, and whoever asks for
\* the same package at the same time, what is found later is whole.
CachedWhole ==
  \A p \in Packages : dir[p] = "partial" =>
    p \in killed \/ \E c \in Callers : phase[c] = "fetching" /\ wanted[c] = p

\* pkg.hpp:13: resolve "clones/updates it locally, and returns the combined source
\* text of all .agc files found inside": it does not come back empty-handed from
\* a package it has found or fetched.
FetchedIsReturned == \A c \in Callers : answered[c] # "nothing"

=============================================================================
