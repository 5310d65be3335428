---------------------------- MODULE BuildProofs -----------------------------
(***************************************************************************)
(* Theorems about module BuildScript, for any releases of liburing, and    *)
(* any number of failures, kills and changes.                              *)
(***************************************************************************)
EXTENDS BuildScript, TLAPS

(* What the script has established where it is: which library it made cargo *)
(* link, that the directory it builds in is a whole clone once configure    *)
(* has succeeded in it, and that the library is of that clone once it is    *)
(* made.                                                                    *)
FromSource == {"clone", "configure", "make", "source bindings"}

ScriptKnows ==
  /\ pc = "system bindings" => links = "uring"
  /\ pc \in FromSource => links = "uring-ffi"
  /\ pc = "configure" => clone # Absent
  /\ pc \in {"make", "source bindings"} => clone \in Versions
  /\ pc = "source bindings" => built = clone

BuildInv == TypeOK /\ ScriptKnows /\ BindingsMatchLibrary

(* No release is Absent or Cut. *)
LEMMA ReleasesAreReal ==
  Versions \subseteq Nat /\ Absent \notin Versions /\ Cut \notin Versions
BY BuildAssumption DEF Absent, Cut

(* The two fields of a library. *)
LEMMA LibraryFields ==
  ASSUME NEW name, NEW v
  PROVE  Library(name, v).lib = name /\ Library(name, v).version = v
BY DEF Library

(* Failures and changes stay within their bounds, in Init and in each step. *)
Bounded == faults \in 0 .. MaxFaults /\ changes \in 0 .. MaxChanges

(* Every step stays within the bounds. *)
LEMMA NextBounded == Bounded /\ [Next]_vars => Bounded'
<1> SUFFICES ASSUME Bounded, [Next]_vars PROVE Bounded'
  OBVIOUS
<1>1. \/ faults' = faults /\ changes' = changes
      \/ faults < MaxFaults /\ faults' = faults + 1 /\ changes' = changes
      \/ changes < MaxChanges /\ changes' = changes + 1 /\ faults' = faults
  BY DEF Next, vars, outDir, script, machine, Start, ScriptStep, Probe, Reprobe,
    SystemBindings, Clone, Configure, Make, SourceBindings, ToolFails, Kill, ChangePackage, RaiseMinVersion
<1> QED
  BY <1>1, BuildAssumption DEF Bounded

(* BuildInv holds before the first build. *)
LEMMA InitBuildInv == Init => BuildInv
<1> SUFFICES ASSUME Init PROVE BuildInv
  OBVIOUS
<1>1. faults \in 0 .. MaxFaults /\ changes \in 0 .. MaxChanges
  BY BuildAssumption DEF Init
<1>2. wanted \in Versions
  BY BuildAssumption DEF Init
<1> QED
  BY <1>1, <1>2 DEF Init, BuildInv, TypeOK, ScriptKnows, FromSource, BindingsMatchLibrary

(* generate_bindings, whichever library it describes: the script is done    *)
(* with bindings of that library, or has failed and left the old ones.      *)
LEMMA GeneratedBindings ==
  ASSUME TypeOK,
         NEW name \in {"uring", "uring-ffi"}, NEW v \in Versions \cup {Absent},
         GenerateBindings(Library(name, v))
  PROVE  \/ /\ pc' = "done" /\ v \in Versions
            /\ bindings' = Library(name, v)
            /\ bindings' \in [lib : {"uring", "uring-ffi"}, version : Versions]
         \/ pc' = "failed" /\ bindings' = bindings
<1>1. CASE v = Absent
  BY <1>1, LibraryFields DEF GenerateBindings, HasHeader, Goto
<1>2. CASE v \in Versions
  BY <1>2, LibraryFields, ReleasesAreReal
  DEF GenerateBindings, HasHeader, Write, Goto, Library
<1> QED
  BY <1>1, <1>2

(* A step of the machine, not of the script, keeps the types of what the     *)
(* script keeps.                                                            *)
LEMMA MachineKeepsTypes ==
  ASSUME TypeOK, UNCHANGED <<clone, built, bindings, pc, include, links>>,
         system' \in Versions \cup {Absent}, wanted' \in Versions,
         faults' \in 0 .. MaxFaults, changes' \in 0 .. MaxChanges
  PROVE  TypeOK'
<1>1. /\ clone' = clone /\ built' = built /\ bindings' = bindings
      /\ pc' = pc /\ include' = include /\ links' = links
  OBVIOUS
<1>2. /\ clone \in Versions \cup {Absent, Cut}
      /\ built \in Versions \cup {Absent, Cut}
      /\ bindings \in [lib : {"uring", "uring-ffi"}, version : Versions]
                        \cup {None, Library("none", Cut)}
      /\ pc \in {"idle", "probe", "reprobe", "system bindings", "clone", "configure",
                 "make", "source bindings", "done", "failed"}
      /\ include \in BOOLEAN
      /\ links \in {"none", "uring", "uring-ffi"}
  BY Zenon DEF TypeOK
<1>3. /\ clone' \in Versions \cup {Absent, Cut}
      /\ built' \in Versions \cup {Absent, Cut}
  BY <1>1, <1>2, Zenon
<1>4. bindings' \in [lib : {"uring", "uring-ffi"}, version : Versions]
                        \cup {None, Library("none", Cut)}
  BY <1>1, <1>2, Zenon
<1>5. /\ pc' \in {"idle", "probe", "reprobe", "system bindings", "clone", "configure",
                  "make", "source bindings", "done", "failed"}
      /\ include' \in BOOLEAN
      /\ links' \in {"none", "uring", "uring-ffi"}
  BY <1>1, <1>2, Zenon
<1> QED
  BY <1>3, <1>4, <1>5, Zenon DEF TypeOK

(* BuildInv survives every step of the script, every failure and change. *)
LEMMA NextBuildInv == BuildInv /\ [Next]_vars => BuildInv'
<1> SUFFICES ASSUME BuildInv, [Next]_vars PROVE BuildInv'
  OBVIOUS
<1>0. faults' \in 0 .. MaxFaults /\ changes' \in 0 .. MaxChanges
  BY NextBounded DEF Bounded, BuildInv, TypeOK
<1> USE DEF BuildInv
<1>1. CASE Start
  BY <1>0, <1>1 DEF Start, Running, Goto, outDir, machine, TypeOK, ScriptKnows, FromSource,
    BindingsMatchLibrary
<1>2. CASE Probe
  <2>1. CASE Found
    BY <1>0, <1>2, <2>1 DEF Probe, Goto, outDir, machine, TypeOK, ScriptKnows, FromSource,
      BindingsMatchLibrary
  <2>2. CASE ~Found
    BY <1>0, <1>2, <2>2 DEF Probe, Goto, outDir, machine, TypeOK, ScriptKnows, FromSource,
      BindingsMatchLibrary
  <2> QED
    BY <2>1, <2>2
<1>3. CASE Reprobe
  <2>1. CASE Found /\ include
    BY <1>0, <1>3, <2>1 DEF Reprobe, Goto, outDir, machine, TypeOK, ScriptKnows, FromSource,
      BindingsMatchLibrary
  <2>2. CASE Found /\ ~include
    BY <1>0, <1>3, <2>2 DEF Reprobe, Goto, outDir, machine, TypeOK, ScriptKnows, FromSource,
      BindingsMatchLibrary
  <2>3. CASE ~Found
    BY <1>0, <1>3, <2>3 DEF Reprobe, Goto, outDir, machine, TypeOK, ScriptKnows, FromSource,
      BindingsMatchLibrary
  <2> QED
    BY <2>1, <2>2, <2>3
<1>4. CASE SystemBindings
  <2>1. \/ /\ pc' = "done" /\ system \in Versions
           /\ bindings' = Library("uring", system)
           /\ bindings' \in [lib : {"uring", "uring-ffi"}, version : Versions]
        \/ pc' = "failed" /\ bindings' = bindings
    BY <1>4, GeneratedBindings DEF SystemBindings, TypeOK
  <2>2. links = "uring" /\ links' = "uring"
    BY <1>4 DEF SystemBindings, ScriptKnows
  <2>3. CASE pc' = "failed" /\ bindings' = bindings
    BY <1>0, <1>4, <2>2, <2>3 DEF SystemBindings, machine, TypeOK, ScriptKnows, FromSource,
      BindingsMatchLibrary
  <2>4. CASE /\ pc' = "done"
             /\ bindings' = Library("uring", system)
             /\ bindings' \in [lib : {"uring", "uring-ffi"}, version : Versions]
    <3>1. bindings'.lib = "uring"
      BY <2>4, LibraryFields
    <3> QED
      BY <1>0, <1>4, <2>2, <2>4, <3>1 DEF SystemBindings, machine, TypeOK, ScriptKnows,
        FromSource, BindingsMatchLibrary
  <2> QED
    BY <2>1, <2>3, <2>4
<1>5. CASE Clone
  BY <1>0, <1>5, ReleasesAreReal DEF Clone, MustClone, Goto, machine, TypeOK, ScriptKnows,
    FromSource, BindingsMatchLibrary
<1>6. CASE Configure
  BY <1>0, <1>6 DEF Configure, Goto, outDir, machine, TypeOK, ScriptKnows, FromSource,
    BindingsMatchLibrary
<1>7. CASE Make
  BY <1>0, <1>7 DEF Make, Goto, machine, TypeOK, ScriptKnows, FromSource, BindingsMatchLibrary
<1>8. CASE SourceBindings
  <2>1. clone \in Versions /\ built = clone /\ links = "uring-ffi"
    BY <1>8 DEF SourceBindings, ScriptKnows, FromSource
  <2>2. \/ /\ pc' = "done"
           /\ bindings' = Library("uring-ffi", clone)
           /\ bindings' \in [lib : {"uring", "uring-ffi"}, version : Versions]
        \/ pc' = "failed" /\ bindings' = bindings
    BY <1>8, <2>1, GeneratedBindings DEF SourceBindings
  <2> QED
    BY <1>0, <1>8, <2>1, <2>2 DEF SourceBindings, machine, TypeOK, ScriptKnows, FromSource,
      BindingsMatchLibrary
<1>9. CASE ToolFails
  BY <1>0, <1>9 DEF ToolFails, Goto, outDir, machine, TypeOK, ScriptKnows,
    FromSource, BindingsMatchLibrary
<1>10. CASE Kill
  BY <1>0, <1>10 DEF Kill, Running, Goto, machine, TypeOK, ScriptKnows,
    FromSource, BindingsMatchLibrary
<1>11. CASE ChangePackage
  <2>1. system' \in Versions \cup {Absent}
    BY <1>11 DEF ChangePackage
  <2>2. UNCHANGED <<clone, built, bindings, pc, include, links, wanted>>
    BY <1>11 DEF ChangePackage, outDir, script
  <2>0. wanted' \in Versions
    BY <1>11 DEF ChangePackage, TypeOK
  <2>3. TypeOK'
    BY <1>0, <2>0, <2>1, <2>2, MachineKeepsTypes
  <2>4. ScriptKnows'
    BY <2>2 DEF ScriptKnows
  <2>5. BindingsMatchLibrary'
    BY <2>2 DEF BindingsMatchLibrary
  <2> QED
    BY <2>3, <2>4, <2>5
<1>12. CASE RaiseMinVersion
  <2>1. wanted' \in Versions
    BY <1>12 DEF RaiseMinVersion
  <2>2. pc' = "idle" /\ UNCHANGED <<clone, built, bindings, include, links, system>>
    BY <1>12 DEF RaiseMinVersion, Goto, outDir
  <2> QED
    BY <1>0, <2>1, <2>2 DEF TypeOK, ScriptKnows, FromSource, BindingsMatchLibrary
<1>13. CASE UNCHANGED vars
  <2>1. UNCHANGED <<clone, built, bindings, pc, include, links, system, wanted>>
    BY <1>13 DEF vars, outDir, script, machine
  <2>5. system' \in Versions \cup {Absent} /\ wanted' \in Versions
    BY <2>1 DEF TypeOK
  <2>2. TypeOK'
    BY <1>0, <2>1, <2>5, MachineKeepsTypes
  <2>3. ScriptKnows'
    BY <2>1 DEF ScriptKnows
  <2>4. BindingsMatchLibrary'
    BY <2>1 DEF BindingsMatchLibrary
  <2> QED
    BY <2>2, <2>3, <2>4
<1> QED
  BY <1>1, <1>2, <1>3, <1>4, <1>5, <1>6, <1>7, <1>8, <1>9, <1>10, <1>11, <1>12, <1>13
  DEF Next, ScriptStep

(* BuildInv is an invariant of the script, over every sequence of builds. *)
THEOREM BuildInvariant == Spec => []BuildInv
<1>1. Init => BuildInv
  BY InitBuildInv
<1>2. BuildInv /\ [Next]_vars => BuildInv'
  BY NextBuildInv
<1> QED
  BY <1>1, <1>2, PTL DEF Spec

(* Every variable keeps its type: no build, failed or killed, leaves         *)
(* bindings that are neither whole nor cut nor absent.                       *)
THEOREM BuildTypeCorrect == Spec => []TypeOK
<1>1. BuildInv => TypeOK
  BY DEF BuildInv
<1> QED
  BY <1>1, BuildInvariant, PTL

(* A build that ends well has bindings of the library it links, whatever    *)
(* earlier builds left in OUT_DIR.                                          *)
THEOREM BindingsAlwaysMatch == Spec => []BindingsMatchLibrary
<1>1. BuildInv => BindingsMatchLibrary
  BY DEF BuildInv
<1> QED
  BY <1>1, BuildInvariant, PTL
=============================================================================
