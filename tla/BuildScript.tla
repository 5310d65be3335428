---------------------------- MODULE BuildScript -----------------------------
(***************************************************************************)
(* build.rs: finds liburing with pkg-config, or clones and builds it under *)
(* OUT_DIR, and writes bindings.rs there.  OUT_DIR outlives a run of the   *)
(* script: cargo runs it again after a failure, after a kill, and when     *)
(* build.rs or a header changed, over whatever the runs before have left.  *)
(*                                                                         *)
(* External: git, configure, make, bindgen, pkg-config and the packages of *)
(* the machine, which come and go also while the script runs.              *)
(***************************************************************************)
EXTENDS Integers

CONSTANTS
  Versions,   \* releases of liburing, 1 the oldest
  MaxFaults,  \* bound: kills, and failures of the tools
  MaxChanges  \* bound: changes of the installed package and of MIN_VERSION

ASSUME BuildAssumption ==
  /\ Versions \subseteq Nat \ {0} /\ 1 \in Versions
  /\ MaxFaults \in Nat /\ MaxChanges \in Nat

Absent == 0    \* no package, no clone, no library, no bindings
Cut    == -1   \* what a kill leaves of a directory or file being written

Library(name, v) == [lib |-> name, version |-> v]
None == Library("none", Absent)

VARIABLES
  clone,      \* OUT_DIR/liburing-src: its release, Absent or Cut
  built,      \* the release of src/liburing-ffi.a in it
  bindings,   \* OUT_DIR/bindings.rs: the library it describes, Cut or Absent
  pc,         \* where the running script is
  include,    \* lib.include_paths of the first probe is not empty
  links,      \* the library the cargo:rustc-link-lib lines of this run name
  system,     \* release of the installed package
  wanted,     \* MIN_VERSION
  faults, changes

outDir  == <<clone, built, bindings>>
script  == <<pc, include, links>>
machine == <<system, wanted>>
vars    == <<outDir, script, machine, faults, changes>>

Running == pc \notin {"idle", "done", "failed"}
Found   == system >= wanted

Init ==
  /\ clone = Absent /\ built = Absent /\ bindings = None
  /\ pc = "idle" /\ include = FALSE /\ links = "none"
  /\ system \in Versions \cup {Absent} /\ wanted = 1
  /\ faults = 0 /\ changes = 0

Goto(next) == pc' = next

-----------------------------------------------------------------------------
(* cargo runs the script. *)
Start ==
  /\ ~Running
  /\ Goto("probe")
  /\ links' = "none"
  /\ UNCHANGED <<outDir, include, machine, faults, changes>>

(* try_pkg_config: the first probe, which prints nothing for cargo.  When   *)
(* it finds no package main prints the fallback's library.                  *)
Probe ==
  /\ pc = "probe"
  /\ IF Found THEN Goto("reprobe") /\ include' \in BOOLEAN /\ UNCHANGED links
              ELSE Goto("clone") /\ links' = "uring-ffi" /\ UNCHANGED include
  /\ UNCHANGED <<outDir, machine, faults, changes>>

(* The second probe prints the link lines; its unwrap() panics when the     *)
(* package has gone meanwhile.  Bindings are generated only when the first  *)
(* probe named an include directory.                                        *)
Reprobe ==
  /\ pc = "reprobe"
  /\ IF Found THEN Goto(IF include THEN "system bindings" ELSE "done") /\ links' = "uring"
              ELSE Goto("failed") /\ UNCHANGED links
  /\ UNCHANGED <<outDir, include, machine, faults, changes>>

(* generate_bindings: bindgen reads the header (a panic without one) and    *)
(* bindings.rs is written.  (Here and below, an operator marked MUTANT is a *)
(* mistake the definition after it could have contained; a property is      *)
(* shown to notice it.)                                                     *)
WriteIfMissing(lib) == IF bindings = None THEN lib ELSE bindings  \* MUTANT: kept once there
Write(lib) == lib

HeaderUnchecked(lib) == TRUE  \* MUTANT: no expect() on what bindgen says
HasHeader(lib) == lib.version # Absent

GenerateBindings(lib) ==
  IF HasHeader(lib) THEN Goto("done") /\ bindings' = Write(lib)
                    ELSE Goto("failed") /\ UNCHANGED bindings

SystemBindings ==
  /\ pc = "system bindings"
  /\ GenerateBindings(Library("uring", system))
  /\ UNCHANGED <<clone, built, include, links, machine, faults, changes>>

-----------------------------------------------------------------------------
(* build_from_source: git clones the release MIN_VERSION names, unless the  *)
(* directory exists; git refuses to clone into a directory that does.       *)
AlwaysClone == TRUE  \* MUTANT: no test for the directory
MustClone == clone = Absent

Clone ==
  /\ pc = "clone"
  /\ IF MustClone
     THEN IF clone = Absent THEN clone' = wanted /\ Goto("configure")
                            ELSE Goto("failed") /\ UNCHANGED clone
     ELSE Goto("configure") /\ UNCHANGED clone
  /\ UNCHANGED <<built, bindings, include, links, machine, faults, changes>>

(* ./configure in that directory: half a clone has none, or a broken one. *)
Configure ==
  /\ pc = "configure"
  /\ Goto(IF clone = Cut THEN "failed" ELSE "make")
  /\ UNCHANGED <<outDir, include, links, machine, faults, changes>>

(* make brings the library up to date with the sources. *)
Make ==
  /\ pc = "make"
  /\ built' = clone
  /\ Goto("source bindings")
  /\ UNCHANGED <<clone, bindings, include, links, machine, faults, changes>>

SourceBindings ==
  /\ pc = "source bindings"
  /\ GenerateBindings(Library("uring-ffi", clone))
  /\ UNCHANGED <<clone, built, include, links, machine, faults, changes>>

-----------------------------------------------------------------------------
(* A tool fails: the script panics.  A git clone that fails cleans up. *)
ToolFails ==
  /\ faults < MaxFaults
  /\ pc \in {"clone", "configure", "make", "source bindings", "system bindings"}
  /\ pc = "clone" => clone = Absent
  /\ faults' = faults + 1
  /\ Goto("failed")
  /\ UNCHANGED <<outDir, include, links, machine, changes>>

(* cargo, the script and its children are killed: what was being written    *)
(* may be cut.  A library cut in make's hands is for make to mend.          *)
Kill ==
  /\ faults < MaxFaults /\ Running
  /\ faults' = faults + 1
  /\ Goto("idle")
  /\ clone' \in IF pc = "clone" /\ clone = Absent THEN {Absent, Cut} ELSE {clone}
  /\ built' \in IF pc = "make" THEN {built, Cut} ELSE {built}
  /\ bindings' \in IF pc \in {"source bindings", "system bindings"}
                   THEN {bindings, Library("none", Cut)} ELSE {bindings}
  /\ UNCHANGED <<include, links, machine, changes>>

(* A package is installed, upgraded or removed; MIN_VERSION is raised, which *)
(* makes a new script: not while one runs, and cargo will run it.            *)
ChangePackage ==
  /\ changes < MaxChanges
  /\ changes' = changes + 1
  /\ system' \in (Versions \cup {Absent}) \ {system}
  /\ UNCHANGED <<outDir, script, wanted, faults>>

RaiseMinVersion ==
  /\ changes < MaxChanges /\ ~Running
  /\ changes' = changes + 1
  /\ wanted' \in {v \in Versions : v > wanted}
  /\ Goto("idle")
  /\ UNCHANGED <<outDir, include, links, system, faults>>

ScriptStep ==
  \/ Probe \/ Reprobe \/ SystemBindings
  \/ Clone \/ Configure \/ Make \/ SourceBindings

Next ==
  \/ Start \/ ScriptStep
  \/ ToolFails \/ Kill \/ ChangePackage \/ RaiseMinVersion

Spec == Init /\ [][Next]_vars

(* Whoever builds tries again until it works; a script that runs goes on.   *)
(* Nothing makes a tool fail, a machine crash or a package change.          *)
FairSpec ==
  /\ Spec
  /\ WF_vars(ScriptStep)
  /\ WF_vars(Start /\ pc # "done")

-----------------------------------------------------------------------------
(* Type invariant; bindings are of a release that was there. *)
TypeOK ==
  /\ clone \in Versions \cup {Absent, Cut}
  /\ built \in Versions \cup {Absent, Cut}
  /\ bindings \in [lib : {"uring", "uring-ffi"}, version : Versions]
                    \cup {None, Library("none", Cut)}
  /\ pc \in {"idle", "probe", "reprobe", "system bindings", "clone", "configure",
             "make", "source bindings", "done", "failed"}
  /\ include \in BOOLEAN
  /\ links \in {"none", "uring", "uring-ffi"}
  /\ system \in Versions \cup {Absent} /\ wanted \in Versions
  /\ faults \in 0 .. MaxFaults /\ changes \in 0 .. MaxChanges

(* Whatever failed, was killed or changed before, a run that ends well has  *)
(* left whole bindings of the very library that it makes cargo link, and    *)
(* the fallback's library whole beside them, unless pkg-config named no     *)
(* include directory, when the script leaves what an earlier run wrote.     *)
BindingsMatchLibrary ==
  pc = "done" =>
    /\ links = "uring" /\ include => bindings.lib = "uring"
    /\ links = "uring-ffi" => bindings = Library("uring-ffi", clone) /\ built = clone

(* Builds that are tried again succeed, wherever the ones before stopped,   *)
(* unless a kill left half a clone: build_from_source takes the directory   *)
(* for a complete one, and every later run fails.                           *)
RetriesSucceed == <>[](clone # Cut) => []<>(pc = "done")
=============================================================================
