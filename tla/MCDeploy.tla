------------------------------ MODULE MCDeploy ------------------------------
(* Operators with one or two builds and domains, crashing at any command.  *)
EXTENDS Deployment

Command(build, domain, dry) == [build |-> build, domain |-> domain, dry |-> dry]
OneDomain == {Command(b, "net1", FALSE) : b \in {"local", "v1", "v2"}} \cup {Command("v1", "net1", TRUE)}
TwoDomains == {Command("v1", n, FALSE) : n \in {"net1", "net2"}}
=============================================================================
