---------------------------- MODULE ProjectCatalog ----------------------------
(***************************************************************************)
(* The catalog of projects of the local runner                             *)
(* (projects/localStudioProjectCatalog.ts): the list in memory, the file   *)
(* it is saved to and loaded from, and the local and GitHub sources of a   *)
(* project.                                                                *)
(*                                                                         *)
(* Every request is answered in one go, so each is one step, whose save    *)
(* may fail after the list in memory has changed.  A project is known by   *)
(* the source it was first connected from, builtin, local or GitHub; its   *)
(* title, platforms and delivery branch are left out.                      *)
(***************************************************************************)
EXTENDS Integers, Sequences, FiniteSets, SequencesExt

CONSTANTS
    Path, Builtin,      \* repositories on disk, those the runner comes with
    Repo,               \* GitHub repositories, known by their full names
    Origin,             \* the GitHub repository a path has as its origin, or that a
                        \* builtin is configured with
    WellNamed,          \* paths whose folders make a full name by themselves
    InstallationOf, Installation,
    None

ASSUME CatalogAssumption ==
    /\ IsFiniteSet(Builtin) /\ Builtin \subseteq Path /\ WellNamed \subseteq Path
    /\ None \notin Path \cup Repo /\ \A p \in Builtin : Origin[p] # None
    /\ Origin \in [Path -> Repo \cup {None}]
    /\ InstallationOf \in [Repo -> Installation]

VARIABLES
    projects,   \* #projects
    file, saved,    \* the saved catalog, and whether there is one
    running     \* the process: "down", "up", or "refused" to start

catalogVars == <<projects, file, saved, running>>

\* "degraded" also stands for "accessLost": a GitHub source is readable or not.
States == {"ready", "degraded"}
Position == 1 .. Len(projects)

CatalogInit == projects = <<>> /\ file = <<>> /\ saved = FALSE /\ running = "down"

LocalProject(p, id) ==
    [id |-> id, path |-> p, origin |-> Origin[p], named |-> Origin[p] # None \/ p \in WellNamed,
     github |-> None, state |-> "ready", default |-> FALSE, archived |-> FALSE,
     builtin |-> id[1] = "builtin"]
GitHubProject(r) ==
    [id |-> <<"github", r>>, path |-> None, origin |-> None, named |-> TRUE,
     github |-> r, state |-> "ready", default |-> FALSE, archived |-> FALSE,
     builtin |-> FALSE]

\* githubIdentity
Identity(q) == IF q.github # None THEN q.github ELSE q.origin
-----------------------------------------------------------------------------
(***************************************************************************)
(* Start, load and save.                                                   *)
(***************************************************************************)
\* What load demands of a saved catalog.
Accepts(f) ==
    /\ \A m, n \in DOMAIN f : f[m].id = f[n].id => m = n
    /\ f # <<>> => Cardinality({n \in DOMAIN f : f[n].default /\ ~f[n].archived}) = 1
    /\ \A n \in DOMAIN f : f[n].named /\ (f[n].path # None \/ f[n].github # None)

Builtins ==
    LET ps == SetToSeq(Builtin)
    IN  [n \in DOMAIN ps |-> [LocalProject(ps[n], <<"builtin", ps[n]>>)
                                EXCEPT !.default = (n = 1)]]

StartCatalog ==
    /\ running = "down"
    /\ \/ /\ ~saved /\ running' = "up"
          /\ projects' = Builtins /\ file' = Builtins
       \/ /\ saved /\ Accepts(file) /\ running' = "up"
          /\ projects' = file /\ UNCHANGED file
       \/ /\ saved /\ ~Accepts(file) /\ running' = "refused"
          /\ UNCHANGED <<projects, file>>
    /\ saved' = TRUE

StopCatalog ==
    /\ running = "up"
    /\ running' = "down" /\ projects' = <<>> /\ UNCHANGED <<file, saved>>

\* The file is replaced by a rename, or the save fails and it stays as it was.
Save(ps) ==
    /\ running = "up" /\ UNCHANGED <<saved, running>>
    /\ projects' = ps
    /\ file' \in {ps, file}
-----------------------------------------------------------------------------
(***************************************************************************)
(* Sources.                                                                *)
(***************************************************************************)
Connected(p) == \E n \in Position : projects[n].path = p

First(q) == Append(projects, [q EXCEPT !.default = (projects = <<>>)])

\* A repository whose origin is connected through GitHub becomes the local source
\* of that project, in place of the one it may have.
Connect(p) ==
    LET matching == {n \in Position : Origin[p] # None /\ projects[n].github = Origin[p]}
    IN  /\ ~Connected(p)
        /\ IF matching # {}
           THEN LET n == CHOOSE m \in matching : \A k \in matching : m <= k
                IN  Save([projects EXCEPT ![n].path = p, ![n].origin = Origin[p]])
           ELSE Save(First(LocalProject(p, <<"local", p>>)))

Known(r) == {n \in Position : Identity(projects[n]) = r}

ConnectGitHub(r) ==
    IF Known(r) # {}
    THEN LET n == CHOOSE m \in Known(r) : \A k \in Known(r) : m <= k
         IN  Save([projects EXCEPT ![n].github = r, ![n].state = "ready", ![n].named = TRUE,
                                   ![n].archived = FALSE])
    ELSE Save(First(GitHubProject(r)))

\* disconnect: what GitHub still provides is kept.
Disconnect(n) ==
    LET q == projects[n]
    IN  /\ ~q.builtin /\ ~q.default
        /\ Save(IF q.github = None THEN RemoveAt(projects, n)
                ELSE [projects EXCEPT ![n].path = None, ![n].origin = None])

\* A mutant: the default can be removed with its last source.
BadRemovable(q) == q.github # None
Removable(q) == q.github # None /\ ~(q.default /\ q.path = None)

DisconnectGitHub(n) ==
    LET q == projects[n]
    IN  /\ Removable(q)
        /\ Save(IF q.path = None THEN RemoveAt(projects, n)
                ELSE [projects EXCEPT ![n].github = None, ![n].state = "ready"])
-----------------------------------------------------------------------------
(***************************************************************************)
(* update and the readiness of an installation.                            *)
(***************************************************************************)
Archive(n) == ~projects[n].default /\ Save([projects EXCEPT ![n].archived = TRUE])
Restore(n) == Save([projects EXCEPT ![n].archived = FALSE])

MakeDefault(n) ==
    Save([k \in Position |->
            IF k = n THEN [projects[k] EXCEPT !.default = TRUE, !.archived = FALSE]
            ELSE [projects[k] EXCEPT !.default = FALSE]])

\* Only the projects of the installation change.
UpdateGitHubReadiness(i, readiness) ==
    LET Bound(q) == q.github # None /\ InstallationOf[q.github] = i
    IN  /\ \E n \in Position : Bound(projects[n]) /\ projects[n].state # readiness
        /\ Save([n \in Position |->
                    IF Bound(projects[n]) THEN [projects[n] EXCEPT !.state = readiness]
                    ELSE projects[n]])

CatalogNext ==
    \/ StartCatalog \/ StopCatalog
    \/ \E p \in Path : Connect(p)
    \/ \E r \in Repo : ConnectGitHub(r)
    \/ \E n \in Position :
        Disconnect(n) \/ DisconnectGitHub(n) \/ Archive(n) \/ Restore(n) \/ MakeDefault(n)
    \/ \E i \in Installation, s \in States : UpdateGitHubReadiness(i, s)

CatalogSpec == CatalogInit /\ [][CatalogNext]_catalogVars
-----------------------------------------------------------------------------
\* Whatever sources come and go, in whatever order, the runner can load what it
\* saved: identifiers are unique, one project that is not archived is the default,
\* every project has a source and a readable name.
Reloads == saved => Accepts(file)

\* A repository is connected once: no two projects are on one path, or bound to one
\* GitHub repository.
ConnectedOnce ==
    \A m, n \in Position :
        /\ projects[m].path # None /\ projects[m].path = projects[n].path => m = n
        /\ projects[m].github # None /\ projects[m].github = projects[n].github => m = n
=============================================================================
