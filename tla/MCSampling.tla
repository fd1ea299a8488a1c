----------------------------- MODULE MCSampling -----------------------------
(* Instances of Sampling for TLC: the sampler's defaults as in the help file,*)
(* with two iterations for its thousand, and every combination of a few     *)
(* arguments.                                                               *)
EXTENDS Sampling_proofs

Item(type, default) == [type |-> type, default |-> default]

SampleHelp ==
  [num_samples |-> Item("int", 2), num_warmup |-> Item("int", 2),
   save_warmup |-> Item("boolean", 0), thin |-> Item("int", 1),
   engaged |-> Item("boolean", 1), gamma |-> Item("double", 5),
   delta |-> Item("double", 80), kappa |-> Item("double", 75),
   t0 |-> Item("double", 10), init_buffer |-> Item("unsigned int", 75),
   term_buffer |-> Item("unsigned int", 50),
   window |-> Item("unsigned int", 25), engine |-> Item("list element", 0),
   max_depth |-> Item("int", 10), metric_file |-> Item("string", 0),
   stepsize |-> Item("double", 1), stepsize_jitter |-> Item("double", 0)]

\* The values a client gives; a seed of 128 is no 8-bit integer.
GivenValues ==
  [random_seed |-> {Number("int", IntMax + 1)},
   num_thin |-> {Number("int", 0), Number("int", 2)},
   num_samples |-> {Number("int", 0)},
   num_warmup |-> {Number("int", 0), Number("int", 3)},
   save_warmup |-> {Number("bool", 1)},
   delta |-> {Number("float", 90)}]

Givens ==
  UNION {{g \in [args -> UNION {GivenValues[a] : a \in args}] :
            \A a \in args : g[a] \in GivenValues[a]} :
         args \in SUBSET DOMAIN GivenValues}

SamplingRequests ==
  [function : {"hmc_nuts_diag_e_adapt", "fixed_param"}, given : Givens,
   nwarn : {0, 5}, fails : {"no", "initialization", "late"}, finite : BOOLEAN]

\* What the proofs suppose of a help file holds of this one.
ASSUME HelpAssumption == HelpServes
=============================================================================
