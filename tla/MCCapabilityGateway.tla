------------------------ MODULE MCCapabilityGateway ------------------------
(* Small instances of CapabilityGateway for TLC. *)
EXTENDS CapabilityGateway, TLC

\* Handlers are alike, and so are digests and invocations of the same kind.
GatewaySymmetry ==
  {p @@ q @@ r @@ s : p \in Permutations(Handlers), q \in Permutations(Digests),
                      r \in Permutations(ModelInvocations),
                      s \in Permutations(Invocations \ ModelInvocations)}
=============================================================================
