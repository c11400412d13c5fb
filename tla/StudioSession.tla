---------------------------- MODULE StudioSession ----------------------------
(***************************************************************************)
(* A Studio session (runner/src/studio/session.ts): clients that ask for   *)
(* it with one idempotency key, its journal of commands, its variants, its *)
(* two deadlines and its one compile attempt, with the attestation of the  *)
(* base it is bound to (studio/capability.ts).                             *)
(*                                                                         *)
(* The operations of a session take turns (withLock).  Those that await    *)
(* nothing are one step; creation and compile hold their lock over the     *)
(* awaited attestation and worker admission, while get and events, which   *)
(* take no lock, and the deadlines go on.                                  *)
(*                                                                         *)
(* A command is an element of Command: what tells commands apart is        *)
(* whether they are structural and whether they compact into the previous  *)
(* one.  A replayed idempotency key of a command or a move returns the     *)
(* stored projection and changes nothing, so only first uses are steps.    *)
(***************************************************************************)
EXTENDS Integers, Sequences, FiniteSets, SequencesExt

CONSTANTS
    Client,             \* who asks for the session with one key
    NoClient,
    Command,
    Structural,         \* commands that switch the laboratory on
    MaxCommands,        \* STUDIO_LIMITS.maxCommandsPerVariant
    MaxVariants,        \* STUDIO_LIMITS.maxVariants
    WorkerConfigured,   \* compileAdmission is defined
    MaxRevision,        \* bound: edits of the journal and the variants
    MaxDisturbances     \* bound: edits of the repository, outages of the preview

ASSUME StudioAssumption ==
    /\ NoClient \notin Client /\ Structural \subseteq Command
    /\ WorkerConfigured \in BOOLEAN
    /\ {MaxCommands, MaxVariants} \subseteq Nat \ {0}
    /\ {MaxRevision, MaxDisturbances} \subseteq Nat

VARIABLES
    asked,         \* how far create got for each client
    creator,       \* the holder of the lock of the creation key
    made,          \* sessions created for the key
    state, revision, commands, cursor, variants, active, cleanup, intent,
    idleOver, absoluteOver,     \* the deadlines against the clock
    pc,            \* the compile that holds the session's lock
    chosen,        \* the variant it captured
    attest,        \* how far the attestation it or the creator awaits got
    base, clean, healthy,       \* the repository and the preview
    disturbances

journal == <<revision, commands, cursor, variants, active>>
clock == <<idleOver, absoluteOver>>
world == <<base, clean, healthy, disturbances>>
creation == <<asked, creator, made>>
compiling == <<pc, chosen, attest>>
vars == <<creation, state, journal, cleanup, intent, clock, compiling, world>>

NoVariant == [id |-> -1, commands |-> <<>>, cursor |-> 0, revision |-> 0]
NoIntent == [variant |-> -1, commands |-> <<>>, revision |-> 0, status |-> "none"]
Frozen == {"compiling", "verifying", "verified", "failed", "conflict", "interrupted"}

Init ==
    /\ asked = [c \in Client |-> "no"] /\ creator = NoClient /\ made = 0
    /\ state = "unavailable" /\ revision = 0 /\ commands = <<>> /\ cursor = 0
    /\ variants = <<>> /\ active = -1 /\ cleanup = "active" /\ intent = NoIntent
    /\ idleOver = FALSE /\ absoluteOver = FALSE
    /\ pc = "free" /\ chosen = NoVariant /\ attest = "none"
    /\ base = TRUE /\ clean = TRUE /\ healthy = TRUE /\ disturbances = 0
-----------------------------------------------------------------------------
(***************************************************************************)
(* The attestation of the base: GitStudioRepositoryAttestor reads HEAD,    *)
(* the status and the tree one after the other, then                       *)
(* HttpStudioRuntimeAttestor fetches the preview.                          *)
(***************************************************************************)
Disturb ==
    /\ disturbances < MaxDisturbances
    /\ disturbances' = disturbances + 1
    /\ \/ base' = ~base /\ UNCHANGED <<clean, healthy>>
       \/ clean' = ~clean /\ UNCHANGED <<base, healthy>>
       \/ healthy' = ~healthy /\ UNCHANGED <<base, clean>>
    /\ UNCHANGED <<creation, state, journal, cleanup, intent, clock, compiling>>

\* The next read of the attestation, and whether it passes.
Reads(from, holds, to) ==
    /\ attest = from
    /\ attest' = IF holds THEN to ELSE "null"
    /\ UNCHANGED <<creation, state, journal, cleanup, intent, clock, pc, chosen, world>>

AttestHead == Reads("head", base, "status")
AttestStatus == Reads("status", clean, "tree")
AttestTree == Reads("tree", base, "runtime")
AttestRuntime == Reads("runtime", healthy, "admitted")

AttestThrows ==
    /\ attest \in {"head", "status", "tree", "runtime"}
    /\ attest' = "thrown"
    /\ UNCHANGED <<creation, state, journal, cleanup, intent, clock, pc, chosen, world>>
-----------------------------------------------------------------------------
(***************************************************************************)
(* create                                                                  *)
(***************************************************************************)
\* A client asks; a known key is answered by get.
AskCreate(c) ==
    /\ asked[c] = "no"
    /\ asked' = [asked EXCEPT ![c] = IF made > 0 THEN "done" ELSE "queued"]
    /\ UNCHANGED <<creator, made, state, journal, cleanup, intent, clock, compiling, world>>

\* The key is looked up again once the lock is held.
MustCreate == made = 0

TakeCreate(c) ==
    /\ asked[c] = "queued" /\ creator = NoClient
    /\ IF MustCreate
       THEN /\ asked' = [asked EXCEPT ![c] = "admitting"]
            /\ creator' = c /\ attest' = "head"
       ELSE /\ asked' = [asked EXCEPT ![c] = "done"]
            /\ UNCHANGED <<creator, attest>>
    /\ UNCHANGED <<made, state, journal, cleanup, intent, clock, pc, chosen, world>>

\* The rest of create, after the awaited admission.
Create(c) ==
    /\ creator = c /\ attest = "admitted"
    /\ asked' = [asked EXCEPT ![c] = "done"]
    /\ creator' = NoClient /\ attest' = "none" /\ made' = made + 1
    /\ state' = "ready" /\ revision' = 0 /\ commands' = <<>> /\ cursor' = 0
    /\ variants' = <<[id |-> 0, commands |-> <<>>, cursor |-> 0, revision |-> 0]>>
    /\ active' = 0 /\ cleanup' = "active" /\ intent' = NoIntent
    /\ idleOver' = FALSE /\ absoluteOver' = FALSE
    /\ UNCHANGED <<pc, chosen, world>>

\* The admission was refused or threw: nothing is stored, the client may ask again.
CreateFails(c) ==
    /\ creator = c /\ attest \in {"null", "thrown"}
    /\ asked' = [asked EXCEPT ![c] = "no"]
    /\ creator' = NoClient /\ attest' = "none"
    /\ UNCHANGED <<made, state, journal, cleanup, intent, clock, pc, chosen, world>>
-----------------------------------------------------------------------------
(***************************************************************************)
(* Deadlines.                                                              *)
(***************************************************************************)
Expired == idleOver \/ absoluteOver
Active == made > 0 /\ ~Expired /\ state # "closed"
Editable == Active /\ state \notin Frozen

LockFree == pc = "free"

\* touch never moves the idle deadline past the absolute one.
Touch == idleOver' = absoluteOver /\ UNCHANGED absoluteOver

Later ==
    /\ made > 0
    /\ \/ ~idleOver /\ idleOver' = TRUE /\ UNCHANGED absoluteOver
       \/ ~absoluteOver /\ absoluteOver' = TRUE /\ idleOver' = TRUE
    /\ UNCHANGED <<creation, state, journal, cleanup, intent, compiling, world>>

\* get and events take no lock: the one that comes first after a deadline marks
\* the session, whatever holds the lock.
Get ==
    /\ made > 0
    /\ IF Expired
       THEN state' = "interrupted" /\ cleanup' = "pending" /\ UNCHANGED clock
       ELSE state # "closed" /\ Touch /\ UNCHANGED <<state, cleanup>>
    /\ UNCHANGED <<creation, journal, intent, compiling, world>>
-----------------------------------------------------------------------------
(***************************************************************************)
(* The journal.                                                            *)
(***************************************************************************)
Structured(cs) == \E n \in 1 .. Len(cs) : cs[n] \in Structural
Shown(cs, empty) ==
    IF Structured(cs) THEN "laboratory" ELSE IF cs = <<>> THEN empty ELSE "previewing"

\* syncActiveVariant
Synced(cs, n, r) ==
    [k \in DOMAIN variants |->
        IF variants[k].id = active
        THEN [variants[k] EXCEPT !.commands = cs, !.cursor = n, !.revision = r]
        ELSE variants[k]]

Edit == LockFree /\ Editable /\ revision < MaxRevision
Bump == revision' = revision + 1
Unedited == UNCHANGED <<creation, cleanup, intent, compiling, world>>

\* applyCommand: what was undone is dropped, an equal command may be compacted
\* into the previous one.
ApplyCommand(c) ==
    LET done == SubSeq(commands, 1, cursor)
        New == {Append(done, c)} \cup
               IF done # <<>> /\ Last(done) = c THEN {done} ELSE {}
    IN  /\ Edit
        /\ \E cs \in New :
            /\ Len(cs) <= MaxCommands
            /\ commands' = cs /\ cursor' = Len(cs)
            /\ variants' = Synced(cs, Len(cs), revision + 1)
            /\ state' = Shown(cs, "previewing")
        /\ Bump /\ Touch /\ UNCHANGED active /\ Unedited

\* undo and redo
JournalMove(step) ==
    LET n == cursor + step
    IN  /\ Edit /\ n \in 0 .. Len(commands)
        /\ cursor' = n
        /\ variants' = Synced(commands, n, revision + 1)
        /\ state' = Shown(SubSeq(commands, 1, n), "ready")
        /\ Bump /\ Touch /\ UNCHANGED <<commands, active>> /\ Unedited

CreateVariant ==
    LET v == [id |-> revision + 1, commands |-> commands, cursor |-> cursor,
              revision |-> revision + 1]
    IN  /\ Edit /\ Len(variants) < MaxVariants
        /\ variants' = Append(variants, v) /\ active' = v.id
        /\ state' = "laboratory"
        /\ Bump /\ Touch /\ UNCHANGED <<commands, cursor>> /\ Unedited

SelectVariant(k) ==
    /\ Edit
    /\ active' = variants[k].id
    /\ commands' = variants[k].commands /\ cursor' = variants[k].cursor
    /\ state' = "laboratory"
    /\ Bump /\ Touch /\ UNCHANGED variants /\ Unedited

\* Deleting the active variant makes the last one that is left active.
DeleteVariant(k) ==
    LET left == RemoveAt(variants, k)
        v == Last(left)
    IN  /\ Edit /\ Len(variants) > 1
        /\ variants' = left
        /\ IF variants[k].id = active
           THEN /\ active' = v.id /\ commands' = v.commands /\ cursor' = v.cursor
                /\ state' = Shown(SubSeq(v.commands, 1, v.cursor), "ready")
           ELSE UNCHANGED <<active, commands, cursor, state>>
        /\ Bump /\ Touch /\ Unedited
-----------------------------------------------------------------------------
(***************************************************************************)
(* compile, interrupt and close.                                           *)
(***************************************************************************)
\* A mutant: two compiles are awaited together.
BadMayCompile == Active /\ pc # "admitting" /\ attest \in {"none", "admitted"}

\* compile looks at the deadlines and at closed, not at the other states.
MayCompile == LockFree /\ Active /\ intent = NoIntent

\* Until the first await.  A session that has an attempt answers with it.
Compile(k) ==
    LET v == variants[k]
    IN  /\ MayCompile /\ v.id = active /\ v.cursor > 0
        /\ pc' = "attesting" /\ chosen' = v /\ attest' = "head"
        /\ UNCHANGED <<creation, state, journal, cleanup, intent, clock, world>>

\* The base is no longer what the session was bound to, or cannot be attested.
CompileRefused ==
    /\ pc = "attesting" /\ attest \in {"null", "thrown"}
    /\ state' = IF attest = "null" THEN "conflict" ELSE state
    /\ pc' = "free" /\ chosen' = NoVariant /\ attest' = "none"
    /\ UNCHANGED <<creation, journal, cleanup, intent, clock, world>>

\* The intent is frozen; whatever get did to the state is overwritten.
CompileFreezes ==
    LET i == [variant |-> chosen.id, commands |-> SubSeq(chosen.commands, 1, chosen.cursor),
              revision |-> chosen.revision, status |-> "preflight"]
    IN  /\ pc = "attesting" /\ attest = "admitted"
        /\ intent' = IF WorkerConfigured THEN i ELSE [i EXCEPT !.status = "failed"]
        /\ state' = IF WorkerConfigured THEN "compiling" ELSE "failed"
        /\ pc' = IF WorkerConfigured THEN "admitting" ELSE "free"
        /\ chosen' = NoVariant /\ attest' = "none"
        /\ Bump /\ Touch
        /\ UNCHANGED <<creation, commands, cursor, variants, active, cleanup, world>>

\* The worker admission answers, or fails.
CompileEnds ==
    /\ pc = "admitting"
    /\ pc' = "free"
    /\ \/ intent' = [intent EXCEPT !.status = "accepted"] /\ UNCHANGED state
       \/ intent' = [intent EXCEPT !.status = "failed"] /\ state' = "failed"
    /\ UNCHANGED <<creation, journal, cleanup, clock, chosen, attest, world>>

\* interrupt does not look at the deadlines, and touches.
Interrupt ==
    /\ LockFree /\ made > 0 /\ revision < MaxRevision
    /\ state \notin {"closed", "verified"}
    /\ state' = "interrupted" /\ cleanup' = "pending"
    /\ Bump /\ Touch
    /\ UNCHANGED <<creation, commands, cursor, variants, active, intent, compiling, world>>

Close ==
    /\ LockFree /\ made > 0 /\ revision < MaxRevision
    /\ state' = "closed" /\ cleanup' = "cleaned"
    /\ commands' = <<>> /\ variants' = <<>> /\ active' = -1
    /\ Bump /\ Touch
    /\ UNCHANGED <<creation, cursor, intent, compiling, world>>

Attest == AttestHead \/ AttestStatus \/ AttestTree \/ AttestRuntime \/ AttestThrows
Creates(c) == AskCreate(c) \/ TakeCreate(c) \/ Create(c) \/ CreateFails(c)
Edits ==
    \/ \E c \in Command : ApplyCommand(c)
    \/ JournalMove(-1) \/ JournalMove(1) \/ CreateVariant
    \/ \E k \in DOMAIN variants : SelectVariant(k) \/ DeleteVariant(k)
Compiles ==
    \/ \E k \in DOMAIN variants : Compile(k)
    \/ CompileRefused \/ CompileFreezes \/ CompileEnds

Next ==
    \/ Disturb \/ Attest \/ Later \/ Get
    \/ \E c \in Client : Creates(c)
    \/ Edits \/ Compiles \/ Interrupt \/ Close

Spec == Init /\ [][Next]_vars
-----------------------------------------------------------------------------
\* The journal on screen is the active variant, content, cursor and all, however
\* variants are made, selected and deleted between commands, undo and redo: what
\* compile reads (the variant) is what the operator accepted (the journal).
JournalIsVariant ==
    variants # <<>> =>
        \E k \in DOMAIN variants :
            /\ variants[k].id = active
            /\ variants[k].commands = commands /\ variants[k].cursor = cursor
            /\ variants[k].revision <= revision

\* One session makes at most one attempt, on a frozen variant: an attempt keeps
\* its content, ends once, and its variant is not edited under it; a client that
\* retries create with its key meets the same session.
OneAttempt ==
    [][/\ made' <= 1
       /\ intent # NoIntent =>
            /\ [intent' EXCEPT !.status = ""] = [intent EXCEPT !.status = ""]
            /\ intent.status # "preflight" => intent' = intent
            /\ variants' \in {variants, <<>>}]_vars

\* The frozen intent names the content and the revision of the variant it was
\* taken from, although both were read before the awaited attestation.
IntentIsVariant ==
    intent # NoIntent /\ variants # <<>> =>
        \E k \in DOMAIN variants :
            /\ variants[k].id = intent.variant /\ variants[k].revision = intent.revision
            /\ SubSeq(variants[k].commands, 1, variants[k].cursor) = intent.commands
=============================================================================
