--------------------------- MODULE MCDeploymentJob ---------------------------
(***************************************************************************)
(* Bounds for DeploymentJob.  Three endpoints and two runners make a pool  *)
(* whose runners claim more than once; two jobs make a retry, or two       *)
(* requests for one endpoint.                                              *)
(***************************************************************************)
EXTENDS DeploymentJob, TLC

CONSTANTS e1, e2, e3, j1, j2

OneJob == {j1}
TwoJobs == {j1, j2}
TwoEndpoints == {e1, e2}
ThreeEndpoints == {e1, e2, e3}

AllRnd == [e \in Endpoints |-> "rnd"]

Body(k, env, c, S) ==
  [kind |-> k, environment |-> env, confirmed |-> c, endpoints |-> S, parent |-> NoJob]

UninstallAll == {Body("uninstall_rscd", "rnd", FALSE, Endpoints)}
InstallOrUninstallAll ==
  {Body(k, "rnd", FALSE, Endpoints) : k \in {"install_package", "uninstall_rscd"}}

InstallAll == {Body("install_package", "rnd", FALSE, Endpoints)}

EndpointSymmetry == Permutations(Endpoints)

\* The operator submits one job; the other is its retry.
SecondIsRetry == body[j2] = NoBody \/ body[j2].parent = j1
=============================================================================
