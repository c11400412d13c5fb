-------------------------- MODULE CompilationRouting --------------------------
(***************************************************************************)
(* Which targets of a project can be compiled, and where: the detector     *)
(* reads the manifests of the repository (projectTargetDetector.ts), the   *)
(* router matches its evidence with the workers' (compilationRouter.ts),   *)
(* and a route of the runner lists all five targets                        *)
(* (compilationRoutingRoutes.ts).                                          *)
(*                                                                         *)
(* Files change while they are read: a read may find a file absent,        *)
(* unstable, or with any content.  A digest stands for what it digests;    *)
(* the evidence of a worker that does not match the requirement (tenant,   *)
(* project, revision, capabilities, verifier) is one that is not proved.   *)
(***************************************************************************)
EXTENDS Naturals, FiniteSets, SequencesExt

CONSTANTS
  Workers,          \* worker evidence the resolver may list: class,
                    \* toolchain, proved, observed and expires
  WindowLimit,      \* the fifteen minutes evidence lasts at most
  LastMinute        \* bound on the clock

VARIABLES
  minute,
  reading,          \* the detection: next file, snapshots taken, contents
  detection,        \* its result
  request           \* the projection of the last request

routingVars == <<minute, reading, detection, request>>

SitePackage == "site/package.json"
SiteLock == "site/pnpm-lock.yaml"
Pubspec == "app/pubspec.yaml"
PubspecLock == "app/pubspec.lock"
Gradle == {"app/android/settings.gradle", "app/android/settings.gradle.kts"}
NoMarker == "none"

\* The marker of each Flutter target but Android, whose marker is one of Gradle.
Marker == [flutterWeb |-> "app/web/index.html",
           flutterWindows |-> "app/windows/CMakeLists.txt",
           flutterIos |-> "app/ios/Runner.xcodeproj/project.pbxproj"]

COMPILATION_TARGETS == <<"astroWeb", "flutterWeb", "flutterAndroid", "flutterWindows", "flutterIos">>

RouteTable ==
  [astroWeb |-> [class |-> "linuxSandbox", toolchain |-> "astroNodePnpm"],
   flutterWeb |-> [class |-> "linuxSandbox", toolchain |-> "flutterWeb"],
   flutterAndroid |-> [class |-> "linuxSandbox", toolchain |-> "flutterAndroidGradle"],
   flutterWindows |-> [class |-> "windowsVm", toolchain |-> "flutterWindowsMsvc"],
   flutterIos |-> [class |-> "macosXcode", toolchain |-> "flutterIosXcode"]]

NotDetected == [detected |-> FALSE]

-----------------------------------------------------------------------------
\* detectProjectTargets, one file after the other.

ReadOrder == <<SitePackage, SiteLock, Pubspec, PubspecLock, "choose", Marker.flutterWeb,
               "android", Marker.flutterWindows, Marker.flutterIos, "decide">>

NotReading == [at |-> 0, seen |-> {}, declares |-> {}, unstable |-> FALSE, marker |-> NoMarker,
               observed |-> 0, expires |-> 0]

NoRequest == [at |-> 0, project |-> NotDetected, workers |-> {}, rows |-> <<>>]

\* validIdentity bounds the window the caller gives.  The resolver of a request,
\* which is not under src/, detects the project before the request is answered.
StartDetection(observed, expires) ==
  /\ reading.at = 0 /\ request.at \notin 1..5
  /\ expires > observed /\ expires - observed <= WindowLimit
  /\ reading' = [NotReading EXCEPT !.at = 1, !.observed = observed, !.expires = expires]
  /\ detection' = NotDetected /\ request' = NoRequest
  /\ UNCHANGED minute

\* After the lock of the pubspec, a project that is not Flutter's has no
\* markers to read.
DeclaresFlutter(r) ==
  {Pubspec, PubspecLock} \subseteq r.seen /\ Pubspec \in r.declares /\ ~r.unstable

After(r) ==
  IF r.unstable /\ r.at >= 6 THEN [r EXCEPT !.at = 10]
  ELSE IF r.at = 4 /\ ~DeclaresFlutter(r) THEN [r EXCEPT !.at = 10]
  ELSE [r EXCEPT !.at = @ + 1]

\* A file that changed between the two looks at it of readSnapshot.
Unstable(r) == [r EXCEPT !.unstable = TRUE]

\* boundedRegularFile: a file that is missing, too large or a link is absent.
Read(path) ==
  \/ reading' = After(reading)
  \/ reading' = After(Unstable(reading))
  \/ reading' = After([reading EXCEPT !.seen = @ \cup {path}])
  \/ /\ path \in {SitePackage, Pubspec}
     /\ reading' = After([reading EXCEPT !.seen = @ \cup {path}, !.declares = @ \cup {path}])

ReadNext ==
  /\ reading.at \in 1..9 \ {5, 7}
  /\ Read(ReadOrder[reading.at])
  /\ UNCHANGED <<minute, detection, request>>

\* firstSafeMarker chooses the Android marker before the markers are read.
ChooseMarker ==
  /\ reading.at = 5
  /\ \E marker \in Gradle \cup {NoMarker} :
       reading' = [reading EXCEPT !.at = 6, !.marker = marker]
  /\ UNCHANGED <<minute, detection, request>>

ReadAndroid ==
  /\ reading.at = 7
  /\ IF reading.marker = NoMarker THEN reading' = After(reading) ELSE Read(reading.marker)
  /\ UNCHANGED <<minute, detection, request>>

AstroDetected(r) == {SitePackage, SiteLock} \subseteq r.seen /\ SitePackage \in r.declares

BadFlutterTargets(r) ==
  {t \in DOMAIN Marker : Marker[t] \in r.seen}
    \cup (IF r.marker # NoMarker THEN {"flutterAndroid"} ELSE {})

FlutterTargets(r) ==
  {t \in DOMAIN Marker : Marker[t] \in r.seen}
    \cup (IF r.marker \in r.seen THEN {"flutterAndroid"} ELSE {})

Capability(r, kind, targets, artifacts) ==
  [detected |-> TRUE, kind |-> kind, targets |-> targets, artifacts |-> artifacts,
   observed |-> r.observed, expires |-> r.expires]

\* unstableEvidence, ambiguousProject and unknownProject detect nothing.
Detected(r) ==
  CASE r.unstable \/ (AstroDetected(r) <=> DeclaresFlutter(r)) -> NotDetected
    [] AstroDetected(r) -> Capability(r, "astro", {"astroWeb"}, {SitePackage, SiteLock})
    [] OTHER -> Capability(r, "flutter", FlutterTargets(r), r.seen \ {SitePackage, SiteLock})

Decide ==
  /\ reading.at = 10
  /\ detection' = Detected(reading)
  /\ reading' = NotReading
  /\ UNCHANGED <<minute, request>>

-----------------------------------------------------------------------------
\* The router.

ValidWindow(e, now) ==
  e.observed <= now /\ e.expires > now /\ e.expires - e.observed <= WindowLimit

\* isArtifactDigests: exactly the files the targets call for.
ArtifactsMatch(p) ==
  IF p.kind = "astro" THEN p.artifacts = {SitePackage, SiteLock}
  ELSE LET others == {Pubspec, PubspecLock} \cup {Marker[t] : t \in p.targets \ {"flutterAndroid"}}
       IN IF "flutterAndroid" \in p.targets
            THEN \E marker \in Gradle : p.artifacts = others \cup {marker}
            ELSE p.artifacts = others

\* The kind, the targets and the artifacts of evidence agree.
WellFormed(p) ==
  /\ p.targets # {}
  /\ p.kind = "astro" => p.targets = {"astroWeb"}
  /\ p.kind = "flutter" => "astroWeb" \notin p.targets
  /\ ArtifactsMatch(p)

ValidProject(p, now) == ValidWindow(p, now) /\ WellFormed(p)

ValidWorker(w, now) == w.proved /\ ValidWindow(w, now)

EarlierExpiry(left, right) == IF left <= right THEN left ELSE right

Unsupported(reason) == [supported |-> FALSE, reason |-> reason, expires |-> 0]

Resolve(target, p, workers, now) ==
  LET hosts == {w \in workers : w.class = RouteTable[target].class}
      toolchains == {w \in hosts : w.toolchain = RouteTable[target].toolchain}
      valid == {w \in toolchains : ValidWorker(w, now)}
  IN IF ~ValidProject(p, now) THEN Unsupported("invalidProjectEvidence")
     ELSE IF target \notin p.targets THEN Unsupported("targetNotDeclared")
     ELSE IF hosts = {} THEN Unsupported("workerUnconfigured")
     ELSE IF toolchains = {} THEN Unsupported("toolchainUnproved")
     ELSE IF valid = {} THEN Unsupported("workerUnproved")
     ELSE IF Cardinality(valid) > 1 THEN Unsupported("incompatibleWorker")
     ELSE LET worker == CHOOSE w \in valid : TRUE
          IN [supported |-> TRUE, reason |-> "none",
              expires |-> EarlierExpiry(p.expires, worker.expires)]

-----------------------------------------------------------------------------
\* GET .../studio/compilation-routing.

RoutingInit ==
  /\ minute = 0 /\ reading = NotReading /\ detection = NotDetected /\ request = NoRequest

\* The probe: evidence that is not valid, or has no target, is unavailable.
Probe(workers) ==
  /\ request.at \notin 1..5
  /\ detection.detected /\ reading.at = 0
  /\ request' = IF ValidProject(detection, minute)
                  THEN [at |-> 1, project |-> detection, workers |-> workers, rows |-> <<>>]
                  ELSE NoRequest
  /\ UNCHANGED <<minute, reading, detection>>

\* One row per target, each resolved at the time it is its turn.  What the
\* evidence lost since the probe is row as incompatibleWorker.
Row ==
  /\ request.at \in 1..5
  /\ LET target == COMPILATION_TARGETS[request.at]
         route == Resolve(target, request.project, request.workers, minute)
         row == IF route.reason = "invalidProjectEvidence"
                    THEN Unsupported("incompatibleWorker") ELSE route
     IN request' = [request EXCEPT !.at = @ + 1, !.rows = Append(@, row)]
  /\ UNCHANGED <<minute, reading, detection>>

RoutingTick ==
  /\ minute < LastMinute
  /\ minute' = minute + 1
  /\ UNCHANGED <<reading, detection, request>>

RoutingNext ==
  \/ \E observed, expires \in 0..LastMinute : StartDetection(observed, expires)
  \/ ReadNext \/ ChooseMarker \/ ReadAndroid \/ Decide
  \/ \E workers \in SUBSET Workers : Probe(workers)
  \/ Row \/ RoutingTick

RoutingSpec == RoutingInit /\ [][RoutingNext]_routingVars

-----------------------------------------------------------------------------
(***************************************************************************)
(* The two halves agree: evidence the detector gives of a project with a   *)
(* target is evidence the router takes while its window is open, whatever  *)
(* happens to the files while they are read.  (A Flutter project with no   *)
(* platform is detected without a target, and refused.)                    *)
(***************************************************************************)
DetectedIsRoutable ==
  detection.detected /\ detection.targets # {} =>
    \A now \in detection.observed .. detection.expires - 1 : ValidProject(detection, now)

(***************************************************************************)
(* A route stands until it expires: resolved again with the same evidence  *)
(* it is supported up to its expiresAt and not from then on, unless the    *)
(* evidence of another worker for its target is current meanwhile.         *)
(***************************************************************************)
RoutesStand ==
  \A n \in DOMAIN request.rows :
    LET target == COMPILATION_TARGETS[n]
        again == Resolve(target, request.project, request.workers, minute)
        alone == Cardinality({w \in request.workers : w.proved
                   /\ w.class = RouteTable[target].class
                   /\ w.toolchain = RouteTable[target].toolchain}) = 1
    IN request.rows[n].supported /\ alone => (again.supported <=> minute < request.rows[n].expires)

=============================================================================
