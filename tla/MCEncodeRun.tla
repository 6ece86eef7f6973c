---------------------------- MODULE MCEncodeRun ----------------------------
(* Two pairs: the first ships x, y and z, the second y, which it calls by    *)
(* another media type. Of the candidates of x the second beats the first,    *)
(* and the third is the first again; the two of z are one layer. Of three    *)
(* faults a behaviour has one: baselines that were not spooled, an encode    *)
(* that fails, a target that cannot be read.                                 *)
EXTENDS EncodeRun

CONSTANTS x, y, z, p, q, oci, docker

MCJobs      == {<<1, x>>, <<1, y>>, <<1, z>>, <<2, y>>}
MCOrder     == <<<<1, x>>, <<1, y>>, <<1, z>>, <<2, y>>>>
MCDigestOf  == [j \in MCJobs |-> j[2]]
MCMediaOf   == [j \in MCJobs |-> IF j[1] = 1 THEN oci ELSE docker]
MCRanked    == [j \in MCJobs |-> CASE j[2] = x -> <<p, q, p>>
                                  [] j[2] = y -> <<q>>
                                  [] j[2] = z -> <<p, p>>]
MCRaw       == [d \in {x, y, z} |-> 9]
MCFullZstd  == [d \in {x, y, z} |-> 6]
MCPatchSize == [o \in {x, y, z} \X {p, q} |-> IF o[2] = p THEN 5 ELSE 4]

OneFault ==
  Cardinality({f \in {<<"spool", primed # Baselines>>, <<"encode", broken # {}>>,
                      <<"read", unread # {}>>} : f[2]}) <= 1

MCInit == Init /\ OneFault
MCSpec == MCInit /\ [][Next]_vars /\ Fairness
=============================================================================
