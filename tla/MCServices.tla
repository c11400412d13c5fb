------------------------------ MODULE MCServices ------------------------------
(***************************************************************************)
(* The smaller services of the runner, one at a time: they share no state, *)
(* so an execution of all of them is an interleaving of theirs, and what   *)
(* holds of each alone holds of all.  focus is the one that moves.         *)
(***************************************************************************)
EXTENDS ProjectCatalog, GitHubSource, CommandReplay, Delivery, CompilationRouting,
        AiReadiness, OperatorSessions, ProjectContext, StudioSession, TLC

VARIABLE focus

\* The catalog: a builtin repository and a clone of a GitHub repository.
CONSTANTS p1, p2, r1, r2, i1, i2
MCOrigin == p1 :> r2 @@ p2 :> r1
MCInstallationOf == r1 :> i1 @@ r2 :> i1

\* Routing: workers with evidence that lapses, one without an egress proof,
\* and one of a class only the Windows target asks for.
Evidence(class, toolchain, proved, observed, expires) ==
    [class |-> class, toolchain |-> toolchain, proved |-> proved,
     observed |-> observed, expires |-> expires]
MCWorkers ==
    {Evidence("linuxSandbox", "flutterWeb", TRUE, 0, 2),
     Evidence("linuxSandbox", "flutterWeb", TRUE, 1, 2),
     Evidence("linuxSandbox", "flutterAndroidGradle", FALSE, 0, 1),
     Evidence("windowsVm", "flutterWindowsMsvc", TRUE, 0, 1)}

\* Readiness: a package, web projects that lack some facts, and a repository
\* whose manifests go on beyond the budget of a scan.
WebProject == Facts \ {"manifestsBeyond"}
MCTrees ==
    {{"manifest", "guidance", "lockfile", "scripts"}, WebProject,
     WebProject \ {"web", "sitemap", "schema"}, WebProject \ {"sitemap"}, Facts}

\* Studio: a plain and a structural command.
CONSTANTS style, layout

ServicesInit ==
    /\ focus \in {"catalog", "github", "replay", "delivery", "routing", "readiness",
                  "operator", "context", "studio"}
    /\ CatalogInit /\ SourceInit /\ ReplayInit /\ DeliveryInit /\ RoutingInit
    /\ ReadinessInit /\ OperatorInit /\ ContextInit /\ Init
    /\ focus # "replay" => command = CHOOSE route \in Routes : TRUE

ServicesNext ==
    \/ /\ focus = "catalog" /\ CatalogNext
       /\ UNCHANGED <<focus, sourceVars, replayVars, deliveryVars, routingVars,
                      readinessVars, operatorVars, contextVars, vars>>
    \/ /\ focus = "github" /\ SourceNext
       /\ UNCHANGED <<focus, catalogVars, replayVars, deliveryVars, routingVars,
                      readinessVars, operatorVars, contextVars, vars>>
    \/ /\ focus = "replay" /\ ReplayNext
       /\ UNCHANGED <<focus, catalogVars, sourceVars, deliveryVars, routingVars,
                      readinessVars, operatorVars, contextVars, vars>>
    \/ /\ focus = "delivery" /\ DeliveryNext
       /\ UNCHANGED <<focus, catalogVars, sourceVars, replayVars, routingVars,
                      readinessVars, operatorVars, contextVars, vars>>
    \/ /\ focus = "routing" /\ RoutingNext
       /\ UNCHANGED <<focus, catalogVars, sourceVars, replayVars, deliveryVars,
                      readinessVars, operatorVars, contextVars, vars>>
    \/ /\ focus = "readiness" /\ ReadinessNext
       /\ UNCHANGED <<focus, catalogVars, sourceVars, replayVars, deliveryVars,
                      routingVars, operatorVars, contextVars, vars>>
    \/ /\ focus = "operator" /\ OperatorNext
       /\ UNCHANGED <<focus, catalogVars, sourceVars, replayVars, deliveryVars,
                      routingVars, readinessVars, contextVars, vars>>
    \/ /\ focus = "context" /\ ContextNext
       /\ UNCHANGED <<focus, catalogVars, sourceVars, replayVars, deliveryVars,
                      routingVars, readinessVars, operatorVars, vars>>
    \/ /\ focus = "studio" /\ Next
       /\ UNCHANGED <<focus, catalogVars, sourceVars, replayVars, deliveryVars,
                      routingVars, readinessVars, operatorVars, contextVars>>
=============================================================================
