-------------------------- MODULE ReleaseAuthority --------------------------
(***************************************************************************)
(* Release authority of the OVN runtime workers: which release the fleet   *)
(* runs, which work schema is written, and which worker may claim work.    *)
(*                                                                         *)
(*  manifest    certification of each published release manifest           *)
(*  edge        certified upgrade edges: the work schemas each allows      *)
(*  distrusted  distrust evidence, by manifest or by edge                  *)
(*  release     release_authority_current                                  *)
(*  bound       component_release_bindings_current; to and at are the      *)
(*              target release and authority generation of its decision;   *)
(*              DISTRUSTED is INCOMPATIBLE by a distrust decision          *)
(*  held        the binding generation a worker process got when it        *)
(*              registered, 0 while it is down                             *)
(*  registering the binding a worker's open registration has decided on;   *)
(*              it holds the authority row FOR SHARE until it commits      *)
(*  promoting   promotions that found their manifest trusted, with whether *)
(*              they found no authority row to lock                        *)
(*  revoking    manifest revocations that found another release in force   *)
(*                                                                         *)
(* A step is one database transaction, and refused requests are no steps.  *)
(* Trust is read without a lock, so a registration, a promotion and the    *)
(* revocation of a manifest are a step that reads and a step that commits. *)
(* One that rolls back has changed nothing and is as if never begun.       *)
(***************************************************************************)
EXTENDS Naturals, FiniteSets, TLC

CONSTANTS Releases, Schemas, Workers,
          NoRelease, NoSchema,
          Supports   \* work schemas of each release's worker artifact

ASSUME ReleaseAssumption ==
  /\ Supports \in [Releases -> SUBSET Schemas]
  /\ NoRelease \notin Releases /\ NoSchema \notin Schemas /\ Schemas # {}

VARIABLES manifest, edge, distrusted, release, bound, held, registering, promoting, revoking

openVars == <<registering, promoting, revoking>>
releaseVars == <<manifest, edge, distrusted, release, bound, held, openVars>>

NoAuthority == [id |-> NoRelease, gen |-> 0, schema |-> NoSchema, schemaGen |-> 1, state |-> "PAUSED"]
Unbound == [gen |-> 0, id |-> NoRelease, compat |-> "NONE", state |-> "NONE", to |-> NoRelease, at |-> 0]
Compatible == {"VALIDATED", "COMPATIBLE"}

AuthorityRow == [id : Releases \cup {NoRelease}, gen : Nat, schema : Schemas \cup {NoSchema},
                 schemaGen : Nat, state : {"ACTIVE", "ROLLING", "PAUSED"}]
BindingRow == [gen : Nat, id : Releases \cup {NoRelease},
               compat : {"NONE", "INCOMPATIBLE", "DISTRUSTED"} \cup Compatible,
               state : {"NONE", "ACTIVE", "DRAINING", "STOPPED", "FENCED"},
               to : Releases \cup {NoRelease}, at : Nat]

ReleaseTypeOK ==
  /\ manifest \in [Releases -> {"NONE", "VALIDATED", "CANDIDATE"}]
  /\ DOMAIN edge \subseteq Releases \X Releases
  /\ \A e \in DOMAIN edge : edge[e] \subseteq Schemas
  /\ distrusted \subseteq Releases \X (Releases \cup {NoRelease})
  /\ release \in AuthorityRow
  /\ bound \in [Workers -> BindingRow]
  /\ held \in [Workers -> Nat]
  /\ registering \in [Workers -> BindingRow]
  /\ promoting \subseteq Releases \X BOOLEAN /\ revoking \subseteq Releases

ReleaseInit ==
  /\ manifest = [r \in Releases |-> "NONE"]
  /\ edge = <<>> /\ distrusted = {}
  /\ release = NoAuthority
  /\ bound = [w \in Workers |-> Unbound]
  /\ held = [w \in Workers |-> 0]
  /\ registering = [w \in Workers |-> Unbound] /\ promoting = {} /\ revoking = {}

-----------------------------------------------------------------------------
(* Publication, trust, and the fleet's release.                            *)

PublishReleaseManifest(r, certification) ==
  /\ manifest[r] = "NONE"
  /\ manifest' = [manifest EXCEPT ![r] = certification]
  /\ UNCHANGED <<edge, distrusted, release, bound, held, openVars>>

PublishReleaseCompatibilityEdge(r, s, allowed) ==
  /\ r # s /\ <<r, s>> \notin DOMAIN edge /\ allowed # {}
  /\ manifest[r] # "NONE" /\ manifest[s] # "NONE"
  /\ edge' = [e \in DOMAIN edge \cup {<<r, s>>} |-> IF e = <<r, s>> THEN allowed ELSE edge[e]]
  /\ UNCHANGED <<manifest, distrusted, release, bound, held, openVars>>

ManifestDistrusted(r) == <<r, NoRelease>> \in distrusted
EdgeTrusted(r, s) == <<r, s>> \in DOMAIN edge /\ <<r, s>> \notin distrusted

\* Mutant: a writer of the authority row does not wait for its readers.
AuthorityLockable == TRUE

\* No registration holds the authority row FOR SHARE.
AuthorityUnshared == \A w \in Workers : registering[w] = Unbound

\* The target is not distrusted; first is that there is no row to lock, and
\* so no release an edge would have to lead from.
SetReleaseAuthority(r, first) ==
  /\ manifest[r] # "NONE" /\ ~ManifestDistrusted(r)
  /\ first => release.gen = 0
  /\ <<r, first>> \notin promoting /\ promoting' = promoting \cup {<<r, first>>}
  /\ UNCHANGED <<manifest, edge, distrusted, release, bound, held, registering, revoking>>

(* The schema of the new authority is taken as given: unlike the schema    *)
(* switch below, no registered worker is asked.                            *)
PromotionCommits(r, first, schema, state) ==
  /\ <<r, first>> \in promoting /\ AuthorityUnshared
  /\ first \/ release.id = r \/ EdgeTrusted(release.id, r)
  /\ schema \in Supports[r]
  /\ <<r, schema, state>> # <<release.id, release.schema, release.state>>
  /\ release' = [release EXCEPT !.id = r, !.gen = @ + 1, !.schema = schema, !.state = state]
  /\ promoting' = promoting \ {<<r, first>>}
  /\ UNCHANGED <<manifest, edge, distrusted, bound, held, registering, revoking>>

\* Compatible bindings of a distrusted release; of a distrusted edge only
\* those whose decision rests on that edge's target.
Fenced(r, s) == {w \in Workers : /\ bound[w].id = r /\ bound[w].compat \in Compatible
                                 /\ s = NoRelease \/ bound[w].to = s}

\* Writes the lifecycle a revocation request names into the binding row.
fenceBindingsAsRevoked(r, s) ==
  bound' = [w \in Workers |-> IF w \notin Fenced(r, s) THEN bound[w]
              ELSE [bound[w] EXCEPT !.gen = @ + 1, !.compat = "DISTRUSTED", !.state = "REVOKED",
                                    !.to = release'.id, !.at = release'.gen]]
fenceDistrustedReleaseBindings(r, s) ==
  bound' = [w \in Workers |-> IF w \notin Fenced(r, s) THEN bound[w]
              ELSE [bound[w] EXCEPT !.gen = @ + 1, !.compat = "DISTRUSTED", !.state = "FENCED",
                                    !.to = release'.id, !.at = release'.gen]]

\* The revocation of a manifest finds another release in force and pauses
\* nothing, then or when a promotion of r commits before it.
RevocationMisses(r) ==
  /\ manifest[r] # "NONE" /\ release.id # r /\ r \notin revoking
  /\ revoking' = revoking \cup {r}
  /\ UNCHANGED <<manifest, edge, distrusted, release, bound, held, registering, promoting>>

\* The same manifest or edge may be revoked again under another distrust id.
RevokeReleaseTrust(r, s, missed) ==
  LET pauses == s = NoRelease /\ ~missed
  IN /\ release.gen > 0 /\ manifest[r] # "NONE" /\ r # s
     /\ s \in Releases => manifest[s] # "NONE"
     /\ missed => s = NoRelease /\ r \in revoking
     /\ pauses => release.id = r /\ AuthorityUnshared
     /\ distrusted' = distrusted \cup {<<r, s>>}
     /\ release' = IF pauses THEN [release EXCEPT !.gen = @ + 1, !.state = "PAUSED"] ELSE release
     /\ revoking' = IF missed THEN revoking \ {r} ELSE revoking
     /\ fenceDistrustedReleaseBindings(r, s)
     /\ UNCHANGED <<manifest, edge, held, registering, promoting>>

-----------------------------------------------------------------------------
(* Workers.                                                                *)

CompatibilityOf(r) ==
  IF ManifestDistrusted(r) \/ manifest[r] # "VALIDATED" THEN "INCOMPATIBLE"
  ELSE IF r = release.id /\ release.schema \in Supports[r] THEN "VALIDATED"
  ELSE IF /\ EdgeTrusted(r, release.id) /\ release.schema \in edge[<<r, release.id>>]
          /\ release.schema \in Supports[r] THEN "COMPATIBLE"
  ELSE "INCOMPATIBLE"

(* A worker process starts and registers the artifact it runs.  matches is *)
(* whether that artifact is the one its manifest names.                    *)
RegisterOVNWorkerRelease(w, r, matches) ==
  /\ held[w] = 0 /\ registering[w] = Unbound
  /\ release.state \in {"ACTIVE", "ROLLING"} /\ manifest[r] # "NONE"
  /\ LET decision == IF matches THEN CompatibilityOf(r) ELSE "INCOMPATIBLE"
     IN registering' = [registering EXCEPT ![w] =
          [gen |-> 0, id |-> r, compat |-> decision, to |-> release.id, at |-> release.gen,
           state |-> IF decision \in Compatible THEN "ACTIVE" ELSE "FENCED"]]
  /\ UNCHANGED <<manifest, edge, distrusted, release, bound, held, promoting, revoking>>

\* The binding moves a generation if anything of it changed.  An incompatible
\* worker is recorded as fenced and exits.
RegistrationCommits(w) ==
  LET row == [registering[w] EXCEPT !.gen = bound[w].gen]
      gen == IF row = bound[w] THEN bound[w].gen ELSE bound[w].gen + 1
  IN /\ registering[w] # Unbound
     /\ bound' = [bound EXCEPT ![w] = [row EXCEPT !.gen = gen]]
     /\ held' = [held EXCEPT ![w] = IF row.compat \in Compatible THEN gen ELSE 0]
     /\ registering' = [registering EXCEPT ![w] = Unbound]
     /\ UNCHANGED <<manifest, edge, distrusted, release, promoting, revoking>>

SetComponentReleaseLifecycle(w, state) ==
  /\ bound[w].gen = held[w] /\ bound[w].compat \in Compatible
  /\ <<bound[w].state, state>> \in {<<"ACTIVE", "DRAINING">>, <<"DRAINING", "STOPPED">>}
  /\ bound' = [bound EXCEPT ![w].state = state]
  /\ held' = IF state = "STOPPED" THEN [held EXCEPT ![w] = 0] ELSE held
  /\ UNCHANGED <<manifest, edge, distrusted, release, openVars>>

WorkerExits(w) ==
  /\ held[w] > 0
  /\ held' = [held EXCEPT ![w] = 0]
  /\ UNCHANGED <<manifest, edge, distrusted, release, bound, openVars>>

\* The release conditions of ClaimOVNRuntimeWork; without a release
\* authority there are none.
ClaimantAdmitted(w) ==
  release.gen > 0 =>
    /\ bound[w].gen = held[w] /\ bound[w].state = "ACTIVE" /\ bound[w].compat \in Compatible
    /\ bound[w].to = release.id /\ bound[w].at = release.gen

\* Activation and rollback of the written work schema.
switchOVNWorkSchema(schema) ==
  /\ AuthorityUnshared
  /\ release.gen > 0 /\ schema # release.schema /\ schema \in Supports[release.id]
  /\ \A w \in Workers : bound[w].state \in {"ACTIVE", "DRAINING"} /\ bound[w].compat \in Compatible
                          => schema \in Supports[bound[w].id]
  /\ release' = [release EXCEPT !.schema = schema, !.schemaGen = @ + 1]
  /\ UNCHANGED <<manifest, edge, distrusted, bound, held, openVars>>

ReleaseStep ==
  \/ \E r \in Releases, c \in {"VALIDATED", "CANDIDATE"} : PublishReleaseManifest(r, c)
  \/ \E r, s \in Releases, allowed \in SUBSET Schemas : PublishReleaseCompatibilityEdge(r, s, allowed)
  \/ \E r \in Releases, first \in BOOLEAN :
       \/ SetReleaseAuthority(r, first)
       \/ \E schema \in Schemas, state \in {"ACTIVE", "ROLLING", "PAUSED"} :
            PromotionCommits(r, first, schema, state)
  \/ \E r \in Releases : RevocationMisses(r)
  \/ \E r \in Releases, s \in Releases \cup {NoRelease}, missed \in BOOLEAN : RevokeReleaseTrust(r, s, missed)
  \/ \E schema \in Schemas : switchOVNWorkSchema(schema)

-----------------------------------------------------------------------------
(* Properties.                                                             *)

(* A worker bound as compatible at the current authority generation, and   *)
(* active or draining, understands the work schema the fleet writes:       *)
(* activation and rollback ask the bindings there are and wait for the     *)
(* registration that is being decided against the schema before (FOR SHARE *)
(* in RegisterOVNWorkerRelease, FOR UPDATE in switchOVNWorkSchema), and a  *)
(* promotion, which asks nobody, moves the generation.                     *)
BoundWorkersUnderstandSchema ==
  \A w \in Workers :
    /\ bound[w].state \in {"ACTIVE", "DRAINING"} /\ bound[w].compat \in Compatible
    /\ bound[w].at = release.gen
    => release.schema \in Supports[bound[w].id]
=============================================================================
