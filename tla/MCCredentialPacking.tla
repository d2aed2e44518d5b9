------------------------ MODULE MCCredentialPacking ------------------------
(* Lengths on both sides of the one at which 2 * (n + 1) reaches UShort.    *)
EXTENDS CredentialPacking, TLC

MCInputs ==
  {in \in [domain: Domains, named: {1, 7, 8}, user: {0, 1, 7, 8},
           password: {0, 6, 7, 9}, scen: Scenarios] :
     in.domain = "named" \/ in.named = 1}

Symmetry == Permutations(Threads)
=============================================================================
