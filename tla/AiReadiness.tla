----------------------------- MODULE AiReadiness -----------------------------
(***************************************************************************)
(* The AI readiness of a project as the Cockpit shows it                   *)
(* (ai-readiness/index.ts and the projects route of app.ts):               *)
(* BoundedProjectAiReadinessEvaluator scans repositories, few at a time    *)
(* and each once for everybody who asks meanwhile, and the route shows     *)
(* what isValidAiReadinessProjection accepts.                              *)
(*                                                                         *)
(* The project owners edit their repositories while they are scanned: a    *)
(* scan finds any of the Trees, and the manifests it reads after it may be *)
(* gone.  A tree is the set of facts the file names tell.                  *)
(***************************************************************************)
EXTENDS Integers, FiniteSets, SequencesExt

CONSTANTS
  Root,             \* repository roots
  Request,          \* Cockpit requests, each of one project here
  Trees,            \* what a scan may find: sets of Facts
  Permits,          \* maxConcurrentScans
  NoRoot

Facts == {"manifest", "source", "schema", "guidance", "llms", "web", "sitemap", "lockfile",
          "scripts", "manifestsBeyond"}

VARIABLES
  asks,             \* the root each request awaits
  inFlight,         \* #inFlight: the scan of each root, idle if none
  scanWaiters,      \* #scanWaiters
  activeScans,      \* #activeScans
  projection        \* the last evaluation, and what the Cockpit showed of it

readinessVars == <<asks, inFlight, scanWaiters, activeScans, projection>>

Idle == [at |-> "idle", facts |-> {}, truncated |-> FALSE]

-----------------------------------------------------------------------------
\* The checks of a scan, in the order of AI_READINESS_CHECKS.

AI_READINESS_CHECKS ==
  <<"structure", "schemas", "agentGuidance", "llmsText", "sitemap", "fastFeedback">>

WEIGHTS == [structure |-> 20, schemas |-> 15, agentGuidance |-> 20, llmsText |-> 15,
            sitemap |-> 10, fastFeedback |-> 20]

REQUIRED_READY_CHECKS == {"structure", "agentGuidance", "fastFeedback"}

Points(fact, facts, n) == IF fact \in facts THEN n ELSE 0

EarnedPoints(facts) ==
  [structure |-> Points("manifest", facts, 10) + Points("source", facts, 10),
   schemas |-> Points("schema", facts, 15),
   agentGuidance |-> Points("guidance", facts, 20),
   llmsText |-> Points("llms", facts, 15),
   sitemap |-> IF "web" \in facts THEN Points("sitemap", facts, 10) ELSE 0,
   fastFeedback |-> Points("lockfile", facts, 10) + Points("scripts", facts, 10)]

\* scoredCheck; the sitemap of a project without a web surface is not
\* applicable.
Outcome(id, facts) ==
  LET earned == EarnedPoints(facts)[id]
  IN CASE id = "sitemap" /\ "web" \notin facts -> "notApplicable"
       [] OTHER -> IF earned = WEIGHTS[id] THEN "passed"
                   ELSE IF earned > 0 THEN "warning" ELSE "missing"

BuildChecks(facts) ==
  [n \in DOMAIN AI_READINESS_CHECKS |->
     LET id == AI_READINESS_CHECKS[n]
     IN [id |-> id, outcome |-> Outcome(id, facts), earned |-> EarnedPoints(facts)[id]]]

Applicable(checks) == {c \in ToSet(checks) : c.outcome # "notApplicable"}

Earned(checks) == FoldSet(LAMBDA c, n : c.earned + n, 0, Applicable(checks))
Maximum(checks) == FoldSet(LAMBDA c, n : WEIGHTS[c.id] + n, 0, Applicable(checks))

\* Math.round of the percentage.
Score(checks) == (200 * Earned(checks) + Maximum(checks)) \div (2 * Maximum(checks))

RequiredPassed(checks) ==
  \A c \in ToSet(checks) : c.id \in REQUIRED_READY_CHECKS => c.outcome = "passed"

Status(checks) ==
  IF Score(checks) >= 80 /\ RequiredPassed(checks) THEN "ready" ELSE "needsWork"

\* A score of -1 is null.  The coverage is checks.length out of six.
Projected(status, score, coverage, checks) ==
  [status |-> status, score |-> score, coverage |-> coverage, checks |-> checks]

Unavailable == Projected("unavailable", -1, 0, <<>>)

Partial(checks) == Projected("partial", -1, Len(checks), checks)

Complete(checks) == Projected(Status(checks), Score(checks), 6, checks)

BadConclusive(checks) == checks

\* With manifests left unread, the checks that read them are not conclusive: the
\* last two, sitemap and fastFeedback.
Conclusive(checks) == SubSeq(checks, 1, 4)

Evaluated(facts, truncated) ==
  LET checks == BuildChecks(facts)
  IN IF truncated THEN Partial(SelectSeq(checks, LAMBDA c : c.outcome = "passed"))
     ELSE IF "manifestsBeyond" \in facts THEN Partial(Conclusive(checks))
     ELSE Complete(checks)

-----------------------------------------------------------------------------
\* isValidAiReadinessProjection.

OutcomeMatchesPoints(c) ==
  CASE c.outcome = "passed" -> c.earned = WEIGHTS[c.id]
    [] c.outcome = "missing" -> c.earned = 0
    [] c.outcome = "warning" -> c.earned > 0 /\ c.earned < WEIGHTS[c.id]
    [] OTHER -> c.id = "sitemap" /\ c.earned = 0

CheckPosition(id) == CHOOSE n \in DOMAIN AI_READINESS_CHECKS : AI_READINESS_CHECKS[n] = id

ValidChecks(checks) ==
  /\ \A n \in DOMAIN checks : OutcomeMatchesPoints(checks[n])
  /\ \A m, n \in DOMAIN checks : m < n => CheckPosition(checks[m].id) < CheckPosition(checks[n].id)

IsValidProjection(p) ==
  /\ Len(p.checks) <= 6 /\ ValidChecks(p.checks)
  /\ \/ p.status = "unavailable" /\ p.score = -1 /\ p.coverage = 0 /\ p.checks = <<>>
     \/ p.status = "partial" /\ p.score = -1 /\ Len(p.checks) < 6 /\ p.coverage = Len(p.checks)
     \/ /\ p.status \in {"ready", "needsWork"} /\ p.coverage = 6 /\ Len(p.checks) = 6
        /\ p.score = Score(p.checks) /\ p.status = Status(p.checks)

-----------------------------------------------------------------------------
ReadinessInit ==
  /\ asks = [q \in Request |-> NoRoot]
  /\ inFlight = [r \in Root |-> Idle]
  /\ scanWaiters = <<>> /\ activeScans = 0
  /\ projection = [evaluated |-> Unavailable, shown |-> Unavailable, truncated |-> FALSE]

\* evaluate: a scan of the root in flight answers this request too; a new one
\* takes a permit or waits for one.
Evaluate(q, r) ==
  /\ asks[q] = NoRoot
  /\ asks' = [asks EXCEPT ![q] = r]
  /\ \/ inFlight[r] # Idle /\ UNCHANGED <<inFlight, scanWaiters, activeScans>>
     \/ /\ inFlight[r] = Idle /\ activeScans >= Permits
        /\ inFlight' = [inFlight EXCEPT ![r].at = "waiting"]
        /\ scanWaiters' = Append(scanWaiters, r)
        /\ UNCHANGED activeScans
     \/ /\ inFlight[r] = Idle /\ activeScans < Permits
        /\ inFlight' = [inFlight EXCEPT ![r].at = "scanning"]
        /\ activeScans' = activeScans + 1
        /\ UNCHANGED scanWaiters
  /\ UNCHANGED projection

\* #scan reads the names.  Out of its budget of entries it is truncated, and has
\* read any part of the repository: the order of a directory is arbitrary.
Scan(r) ==
  /\ inFlight[r].at = "scanning"
  /\ \E tree \in Trees, truncated \in BOOLEAN :
       inFlight' = [inFlight EXCEPT ![r] = [at |-> "manifests", facts |-> tree,
                                            truncated |-> truncated]]
  /\ UNCHANGED <<asks, scanWaiters, activeScans, projection>>

\* The finally of #withScanPermit gives the permit to the first that waits.
HandOver(r) ==
  IF scanWaiters = <<>>
    THEN inFlight' = [inFlight EXCEPT ![r] = Idle] /\ activeScans' = activeScans - 1
         /\ UNCHANGED scanWaiters
    ELSE /\ inFlight' = [inFlight EXCEPT ![r] = Idle, ![Head(scanWaiters)].at = "scanning"]
         /\ scanWaiters' = Tail(scanWaiters) /\ UNCHANGED activeScans

\* Everybody who asked for the root is answered; the route shows a projection
\* it finds invalid as unavailable.
Settled(r, p, truncated) ==
  /\ asks' = [q \in Request |-> IF asks[q] = r THEN NoRoot ELSE asks[q]]
  /\ projection' = [evaluated |-> p, truncated |-> truncated,
                    shown |-> IF IsValidProjection(p) THEN p ELSE Unavailable]
  /\ HandOver(r)

\* The manifests are read: one that changed, is malformed or too large tells
\* nothing.
ReadManifests(r) ==
  /\ inFlight[r].at = "manifests"
  /\ \E unread \in SUBSET {"scripts"} :
       Settled(r, Evaluated(inFlight[r].facts \ unread, inFlight[r].truncated),
                inFlight[r].truncated)

\* A root that is missing or moved, or a directory replaced meanwhile.
EvaluateFails(r) ==
  /\ inFlight[r].at \in {"scanning", "manifests"}
  /\ Settled(r, Unavailable, FALSE)

ReadinessNext ==
  \/ \E q \in Request, r \in Root : Evaluate(q, r)
  \/ \E r \in Root : Scan(r) \/ ReadManifests(r) \/ EvaluateFails(r)

ReadinessSpec == ReadinessInit /\ [][ReadinessNext]_readinessVars

-----------------------------------------------------------------------------
(***************************************************************************)
(* The permits are accounted for: as many scans run as permits are out,    *)
(* never more than there are, a root waits only while none is left, and    *)
(* every request that is awaiting an answer awaits a scan that runs or is  *)
(* in the queue, in any order of requests and ends of scans.               *)
(***************************************************************************)
PermitsAccounted ==
  /\ activeScans = Cardinality({r \in Root : inFlight[r].at \in {"scanning", "manifests"}})
  /\ activeScans <= Permits
  /\ ToSet(scanWaiters) = {r \in Root : inFlight[r].at = "waiting"}
  /\ scanWaiters # <<>> => activeScans = Permits
  /\ \A q \in Request : asks[q] # NoRoot => inFlight[asks[q]] # Idle

(***************************************************************************)
(* What the evaluator says of a scan that saw every entry, the route       *)
(* shows: the score, the status and the checks left out for manifests      *)
(* beyond the bound agree with the rules of the validator (app.ts:514).    *)
(***************************************************************************)
CompleteScansShown == ~projection.truncated => projection.shown = projection.evaluated

(***************************************************************************)
(* A scan that ran out of its budget is shown as partial with the checks   *)
(* it proved, as the specification of the feature says.  The validator     *)
(* refuses a partial projection of all six checks, so a large repository   *)
(* that passed all of them is shown as unavailable (ai-readiness:436).     *)
(***************************************************************************)
EvaluationsShown == projection.shown = projection.evaluated

=============================================================================
