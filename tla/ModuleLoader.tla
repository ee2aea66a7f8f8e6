---------------------------- MODULE ModuleLoader ----------------------------
(***************************************************************************)
(* Registering and loading modules, src/cf_module/cf_module.c.  Modules    *)
(* are registered by constructors before main (CF_MOD_INIT) and by the     *)
(* load functions of others, while cf_mod_setup walks the list.            *)
(* A load function does not call cf_mod_setup again.                       *)
(***************************************************************************)
EXTENDS Naturals, Sequences, FiniteSets, SequencesExt

CONSTANTS Mods,
          Loads,   \* the modules with a load function
          MaxDeps  \* names added per module: a bound of the model

VARIABLES mods,    \* mod_list
          deps,    \* per module the names it depends on
          isLoad,
          at, dep, \* the walks of mod_list and of m_deps, 0 outside of them
          loading, \* the module whose load function runs, as a set
          calls,   \* the load functions that were called
          crashed  \* a load function that is NULL was called

vars == <<mods, deps, isLoad, at, dep, loading, calls, crashed>>

Init == /\ mods = <<>> /\ deps = [m \in Mods |-> <<>>] /\ isLoad = {}
        /\ at = 0 /\ dep = 0 /\ loading = {} /\ calls = <<>> /\ crashed = FALSE

\* The program's own code runs: outside of the setup or in a load function.
Free == ~crashed /\ (at = 0 \/ loading # {})

AddDep(m, name) == /\ Free /\ m \notin ToSet(mods)
                   /\ Len(deps[m]) < MaxDeps
                   /\ deps' = IF name \in ToSet(deps[m]) THEN deps
                              ELSE [deps EXCEPT ![m] = Append(@, name)]
                   /\ UNCHANGED <<mods, isLoad, at, dep, loading, calls, crashed>>

Register(m) == /\ Free /\ m \notin ToSet(mods)
               /\ mods' = Append(mods, m)
               /\ UNCHANGED <<deps, isLoad, at, dep, loading, calls, crashed>>

\* cf_find_mod: the first module there is, whatever the name.
FindByName(name) == name
Find(name) == mods[1]

\* The walk of the dependencies begins at a module that is to be loaded.
Visit(i) == /\ at' = IF i > Len(mods) THEN 0 ELSE i
            /\ dep' = IF i <= Len(mods) /\ mods[i] \in Loads \ isLoad THEN 1 ELSE 0

Setup == /\ ~crashed /\ at = 0 /\ mods # <<>>
         /\ Visit(1)
         /\ UNCHANGED <<mods, deps, isLoad, loading, calls, crashed>>

Skip == /\ at > 0 /\ dep = 0 /\ Visit(at + 1)
        /\ UNCHANGED <<mods, deps, isLoad, loading, calls, crashed>>

\* The next module to be loaded: a dependency, or the module behind them all.
Due == IF dep <= Len(deps[mods[at]]) THEN Find(deps[mods[at]][dep]) ELSE mods[at]

Call == /\ dep > 0 /\ loading = {} /\ ~crashed
        /\ Due \notin isLoad \/ dep > Len(deps[mods[at]])
        /\ IF Due \in Loads
           THEN loading' = {Due} /\ calls' = Append(calls, Due) /\ UNCHANGED crashed
           ELSE crashed' = TRUE /\ UNCHANGED <<loading, calls>>
        /\ UNCHANGED <<mods, deps, isLoad, at, dep>>

\* Behind the last dependency the walk goes on with the next module.
Onward == IF dep > Len(deps[mods[at]]) THEN Visit(at + 1)
          ELSE dep' = dep + 1 /\ at' = at

NextDep == /\ dep > 0 /\ loading = {} /\ ~crashed
           /\ dep <= Len(deps[mods[at]]) /\ Due \in isLoad
           /\ Onward
           /\ UNCHANGED <<mods, deps, isLoad, loading, calls, crashed>>

Loaded == /\ loading # {}
          /\ isLoad' = isLoad \cup loading /\ loading' = {}
          /\ Onward
          /\ UNCHANGED <<mods, deps, calls, crashed>>

Next == \/ Setup \/ Skip \/ Call \/ NextDep \/ Loaded
        \/ \E m \in Mods : Register(m) \/ \E name \in Mods : AddDep(m, name)

Spec == Init /\ [][Next]_vars

-----------------------------------------------------------------------------
\* The first module stands in for its own dependencies.
First == IF mods # <<>> /\ mods[1] \in Loads /\ deps[mods[1]] # <<>>
         THEN <<mods[1]>> ELSE <<>>

\* The modules with a load function among the first n that were registered.
Loadable(n) == {mods[i] : i \in 1 .. n} \cap Loads

\* Behind the call for a dependency of the first module, each call is that of a
\* module before which exactly those have been called that were registered before it.
CallsInOrder ==
  \A i \in DOMAIN calls :
    IF i <= Len(First) THEN calls[i] = First[i]
    ELSE \E p \in DOMAIN mods :
           /\ mods[p] = calls[i] /\ mods[p] \in Loads
           /\ {calls[j] : j \in Len(First) + 1 .. i - 1} = Loadable(p - 1)

\* Whatever the dependencies are, modules are loaded in the order in which they
\* were registered, each once but for the first one, which is loaded twice if it
\* has a dependency; only a dependency of anything on a first module without a
\* load function ends the program; and when the setup returns everything that was
\* registered is loaded, that which was registered under the walk too.
LoadsInOrder ==
  /\ [](CallsInOrder /\ (crashed => mods[1] \notin Loads))
  /\ [][at > 0 /\ at' = 0 => ToSet(mods) \cap Loads \subseteq isLoad']_vars
=============================================================================
