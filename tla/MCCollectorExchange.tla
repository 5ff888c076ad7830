------------------------ MODULE MCCollectorExchange -------------------------
(* Small requests, outputs and pipes. *)
EXTENDS CollectorExchange

AllPlans(calm) == [out : 0..MaxOut, err : 0..MaxErr, reads : 0..(Request + 1),
                   code : {"good", "bad"}, calm : {calm}]

\* Every calm collector, down to one that fills both its pipes before it reads;
\* and of the others, which may stop, crash or hang at any step, those with an
\* output at the limit or one above it.
MCPlans ==
  AllPlans(TRUE) \cup {p \in AllPlans(FALSE) : p.out >= OutLimit /\ p.err = 1 /\ p.code = "good"}
=============================================================================
