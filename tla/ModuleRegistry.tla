------------------------------ MODULE ModuleRegistry ------------------------------
(***************************************************************************)
(* The registry of the Python backend's modules.  A module is registered   *)
(* under its name; bootstrap asks each registered module for its           *)
(* contributions and hands them one by one to the registries of tools,     *)
(* retrieval sources, adapters, blocks, patterns and suites, each of which *)
(* refuses a name it has.  The tools' registry is bootstrapped at startup  *)
(* and again before every lookup of a tool.                                *)
(*                                                                         *)
(* A definition marked [variant] is a faulty form of the one after it.     *)
(* Nothing uses it: it is there to show that a property notices the fault. *)
(***************************************************************************)
EXTENDS Integers, Sequences, FiniteSets, SequencesExt, Selections

CONSTANTS
  Defaults,        \* the modules of the backend, in the order they are registered
  Plugins,         \* modules something else may register
  Offerable,       \* contributions a module may offer
  MaxClears        \* bounds how often the registry is cleared

ModuleNames == ToSet(Defaults) \cup Plugins

ASSUME RegistryBounds ==
  /\ Defaults \in Seq(ToSet(Defaults)) /\ IsInjective(Defaults) /\ ToSet(Defaults) \cap Plugins = {}
  /\ MaxClears \in Nat

VARIABLES
  offer,         \* offer[m]: the contributions of module m, in the order they are applied
  modules,       \* the registered modules, in order
  bootstrapped,  \* those marked as bootstrapped
  contributed,   \* what the registries hold
  applying,      \* a bootstrap is under way
  bootOutcome,   \* how the last bootstrap ended
  clears

registryVars == <<offer, modules, bootstrapped, contributed, applying, bootOutcome, clears>>

RegistryTypeOK ==
  /\ offer \in [ModuleNames -> BoundedSeq(Offerable, 2)]
  /\ modules \in Seq(ModuleNames) /\ IsInjective(modules)
  /\ bootstrapped \subseteq ToSet(modules) /\ contributed \subseteq Offerable
  /\ applying \in BOOLEAN /\ bootOutcome \in {"none", "whole", "raised"}
  /\ clears \in 0..MaxClears

RegistryInit ==
  /\ offer \in [ModuleNames -> BoundedSeq(Offerable, 2)]
  /\ modules = <<>> /\ bootstrapped = {} /\ contributed = {}
  /\ applying = FALSE /\ bootOutcome = "none" /\ clears = 0

\* A registry refuses a name it has, unless it is the same block class again, and a
\* block that does not say its type.
Refused(c, held) ==
  \/ c.class = "untyped"
  \/ \E d \in held : d.registry = c.registry /\ d.name = c.name
                       /\ ~(c.registry = "blocks" /\ c.class = d.class)

\* The contributions of module m taken before the first that is refused.
AcceptedOf(m) ==
  LET before(k) == ToSet(SubSeq(offer[m], 1, k)) IN
    CHOOSE k \in 0..Len(offer[m]) :
      /\ \A i \in 1..k : ~Refused(offer[m][i], contributed \cup before(i - 1))
      /\ k < Len(offer[m]) => Refused(offer[m][k + 1], contributed \cup before(k))

RegisterPlugin(m) ==
  /\ ~applying /\ m \in Plugins \ ToSet(modules) /\ modules' = Append(modules, m)
  /\ UNCHANGED <<offer, bootstrapped, contributed, applying, bootOutcome, clears>>

BootstrapDefaultModules ==
  /\ ~applying /\ applying' = TRUE
  /\ modules' = modules \o SelectIn(Defaults, ModuleNames \ ToSet(modules))
  /\ UNCHANGED <<offer, bootstrapped, contributed, bootOutcome, clears>>

NextModule == SelectIn(modules, ModuleNames \ bootstrapped)[1]
AllBootstrapped == ToSet(modules) \subseteq bootstrapped

\* [variant] The module is marked before its contributions are applied.
ApplyMarkedModule ==
  /\ applying /\ ~AllBootstrapped
  /\ LET m == NextModule k == AcceptedOf(m) IN
       /\ contributed' = contributed \cup ToSet(SubSeq(offer[m], 1, k))
       /\ bootstrapped' = bootstrapped \cup {m}
       /\ applying' = (k = Len(offer[m]))
       /\ bootOutcome' = IF k = Len(offer[m]) THEN bootOutcome ELSE "raised"
  /\ UNCHANGED <<offer, modules, clears>>

\* What was applied before the refusal stays, and the error ends the bootstrap.
ApplyModule ==
  /\ applying /\ ~AllBootstrapped
  /\ LET m == NextModule k == AcceptedOf(m) IN
       /\ contributed' = contributed \cup ToSet(SubSeq(offer[m], 1, k))
       /\ IF k = Len(offer[m])
          THEN bootstrapped' = bootstrapped \cup {m} /\ UNCHANGED <<applying, bootOutcome>>
          ELSE applying' = FALSE /\ bootOutcome' = "raised" /\ UNCHANGED bootstrapped
  /\ UNCHANGED <<offer, modules, clears>>

\* The module cannot say what it contributes.
ModuleRaises ==
  /\ applying /\ ~AllBootstrapped /\ applying' = FALSE /\ bootOutcome' = "raised"
  /\ UNCHANGED <<offer, modules, bootstrapped, contributed, clears>>

BootstrapReturns ==
  /\ applying /\ AllBootstrapped /\ applying' = FALSE /\ bootOutcome' = "whole"
  /\ UNCHANGED <<offer, modules, bootstrapped, contributed, clears>>

ClearRegistry ==
  /\ ~applying /\ clears < MaxClears /\ clears' = clears + 1
  /\ modules' = <<>> /\ bootstrapped' = {} /\ contributed' = {} /\ bootOutcome' = "none"
  /\ UNCHANGED <<offer, applying>>

RegistryNext ==
  \/ \E m \in Plugins : RegisterPlugin(m)
  \/ BootstrapDefaultModules \/ ApplyModule \/ ModuleRaises \/ BootstrapReturns \/ ClearRegistry

RegistrySpec == RegistryInit /\ [][RegistryNext]_registryVars

-----------------------------------------------------------------------------
(* Properties *)

OfferOf(ms) == UNION {ToSet(offer[m]) : m \in ms}

\* A module marked as bootstrapped has everything it offers in the registries, so a
\* lookup that gets an answer sees every default module whole; the marked modules are
\* the first ones registered; and what else is there are the first contributions of the
\* module whose turn it is: one that failed halfway is never passed over.
BootstrappedAreWhole ==
  /\ bootstrapped = ToSet(SubSeq(modules, 1, Cardinality(bootstrapped)))
  /\ IF AllBootstrapped
     THEN contributed = OfferOf(bootstrapped)
     ELSE \E k \in 0..Len(offer[NextModule]) :
            contributed = OfferOf(bootstrapped) \cup ToSet(SubSeq(offer[NextModule], 1, k))
  /\ bootOutcome = "whole" => OfferOf(ToSet(Defaults)) \subseteq contributed
=============================================================================
