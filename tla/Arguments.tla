------------------------------ MODULE Arguments ------------------------------
(***************************************************************************)
(* The arguments of a stan::services function: which ones the wrapper of   *)
(* stan_services.cpp takes, which ones a request may give (schemas.py), and*)
(* the defaults services_stub.call looks up for the others                 *)
(* (services/arguments.py), one of which is cached for the life of the     *)
(* server process: the random seed, read from the clock.                   *)
(*                                                                         *)
(* An argument is a number with its Python type.                           *)
(***************************************************************************)
EXTENDS Naturals

CONSTANTS
  Help,     \* "sample" in cmdstan-help-all.json: name -> type and default
  IntMax,   \* the largest C++ int
  MaxClock, \* bound: time.time() during a run
  NoSeed    \* the cache holds no seed

ASSUME ArgumentsAssumption ==
  /\ {IntMax, MaxClock} \subseteq Nat /\ NoSeed \notin Nat
  /\ \A arg \in DOMAIN Help : Help[arg].default \in Nat

VARIABLES
  clock,  \* int(time.time())
  cached  \* lru_cache's entry for lookup_default(SAMPLE, "random_seed")

argumentVars == <<clock, cached>>

Number(type, n) == [type |-> type, n |-> n]

\* The C++ types of a wrapper's arguments.
FixedParamTypes ==
  [random_seed |-> "int", chain |-> "int", init_radius |-> "double",
   num_samples |-> "int", num_thin |-> "int", refresh |-> "int"]
NutsTypes ==
  [random_seed |-> "int", chain |-> "int", init_radius |-> "double",
   num_warmup |-> "int", num_samples |-> "int", num_thin |-> "int",
   save_warmup |-> "bool", refresh |-> "int", stepsize |-> "double",
   stepsize_jitter |-> "double", max_depth |-> "int", delta |-> "double",
   gamma |-> "double", kappa |-> "double", t0 |-> "double",
   init_buffer |-> "int", term_buffer |-> "int", window |-> "int"]
Wrapper(function) ==
  IF function = "fixed_param" THEN FixedParamTypes ELSE NutsTypes

\* The fields of CreateFitRequest besides function, data and init: all of the
\* sampler's, whichever function is called.  An integer has no upper bound.
RequestFields == NutsTypes
FieldType(arg) == CASE RequestFields[arg] = "double" -> "float"
                    [] RequestFields[arg] = "int" -> "int"
                    [] OTHER -> "bool"

\* _pythonize_cmdstan_type; for anything else it raises.
Pythonize(type) == CASE type = "double" -> "float"
                     [] type \in {"int", "unsigned int"} -> "int"
                     [] type = "boolean" -> "bool"
                     [] type = "string" -> "str"
                     [] OTHER -> "raises"

\* "argument name differs from CmdStan name"
HelpName(arg) == IF arg = "num_thin" THEN "thin" ELSE arg

\* What httpstan chooses itself; the seed is none of these.
Chosen == [chain |-> 1, refresh |-> 100, init_radius |-> 2]

\* ValueError, NotImplementedError or a failed assertion.
LookupRaises(arg) ==
  /\ arg \notin DOMAIN Chosen \cup {"random_seed"}
  /\ \/ HelpName(arg) \notin DOMAIN Help
     \/ Pythonize(Help[HelpName(arg)].type) \in {"str", "raises"}

\* Only the first look-up of the process does.
DefaultSeed == IF cached = NoSeed THEN clock ELSE cached

\* lookup_default, whatever the clock: a bool becomes the int 0 or 1.
FixedDefault(arg) ==
  IF arg \in DOMAIN Chosen THEN Number("int", Chosen[arg])
  ELSE LET item == Help[HelpName(arg)]
       IN CASE Pythonize(item.type) = "bool" ->
                 Number("int", IF item.default = 0 THEN 0 ELSE 1)
            [] OTHER -> Number(Pythonize(item.type), item.default)
Default(arg) ==
  IF arg = "random_seed" THEN Number("int", DefaultSeed) ELSE FixedDefault(arg)

\* The loop of call: every argument of the wrapper that was not given.
Missing(function, given) == DOMAIN Wrapper(function) \ DOMAIN given
\* Plausible slip: the sampler's arguments, whichever function is called.
SamplersFilledIn(function, given) ==
  [arg \in DOMAIN NutsTypes |->
     IF arg \in DOMAIN given THEN given[arg] ELSE Default(arg)]
FilledIn(function, given) ==
  [arg \in DOMAIN Wrapper(function) \cup DOMAIN given |->
     IF arg \in DOMAIN given THEN given[arg] ELSE Default(arg)]

\* pybind11: an int is taken for any type, anything else for its own only,
\* and a C++ int must hold the number.
Converts(value, type) ==
  CASE type = "int" -> value.type = "int" /\ value.n <= IntMax
    [] type = "double" -> value.type \in {"int", "float"}
    [] type = "bool" -> value.type \in {"int", "bool"}

\* The overload is called, or TypeError is raised.
WrapperTakes(function, kwargs) ==
  /\ DOMAIN kwargs = DOMAIN Wrapper(function)
  /\ \A arg \in DOMAIN kwargs : Converts(kwargs[arg], Wrapper(function)[arg])

ArgumentsInit == clock = 0 /\ cached = NoSeed

Tick == clock < MaxClock /\ clock' = clock + 1 /\ UNCHANGED cached

\* A look-up fills the cache; one that raises in the loop may come first.
Remember(args) ==
  cached' = IF "random_seed" \in args THEN DefaultSeed ELSE cached
=============================================================================
