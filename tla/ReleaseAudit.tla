----------------------------- MODULE ReleaseAudit -----------------------------
(***************************************************************************)
(* How release_status judges the artifacts of a release                    *)
(* (src/tools/gf_maintenance.py, with gf_credential_gate.py and            *)
(* build_gf_release_artifacts.py): the manifest and the archives that it   *)
(* declares are copied to a private directory; the credential gate reads   *)
(* the copy, the audit hashes and then examines it, the gate reads it      *)
(* again, and the verdict wants all of them to have seen what was copied.  *)
(*                                                                         *)
(* Between any two reads somebody may replace an archive of the release,   *)
(* or a file of the copy.  A read of one file sees one content or is       *)
(* refused, since it compares identity, size and times before and after    *)
(* (OwnedFiles has the steps of such a read).  Left out: sizes, names and  *)
(* budgets, the walk through an archive, files that nobody declared, and   *)
(* what release_status checks besides, of which the worktree is kept.      *)
(***************************************************************************)
EXTENDS Integers, FiniteSets

CONSTANTS
  Artifacts,   \* the archives of a release
  MaxReplaced  \* bound on what somebody else replaces

ASSUME ReleaseAssumption ==
  Artifacts # {} /\ IsFiniteSet(Artifacts) /\ MaxReplaced \in Nat

VARIABLES
  release, \* the archives of the release
  private, \* the copy, and how often each of its files was replaced
  audit    \* where release_status is, and its locals

releaseVars == <<release, private, audit>>

\* A leaky archive holds a credential and is well made otherwise; a foreign one is not
\* what the sources make.
Contents == {"sound", "leaky", "foreign"}
Manifests == [revision : {"head", "other"}, declares : [Artifacts -> Contents]]

\* copied is the manifest of the snapshot, seen the one that the gate at work read, and
\* version which file that was.
ReleaseInit ==
  \E manifest \in Manifests, dirty \in BOOLEAN :
    /\ release = manifest.declares
    /\ private = [manifest |-> manifest, version |-> 0, archives |-> release,
                  replaced |-> [a \in Artifacts |-> 0]]
    /\ audit = [at |-> "copy", left |-> Artifacts, gates |-> 0, dirty |-> dirty,
                copied |-> manifest, seen |-> manifest, version |-> 0,
                issue |-> FALSE, ok |-> FALSE, tampered |-> 0]

-----------------------------------------------------------------------------
\* Somebody else.  An archive of the release is not read again once it was copied, and
\* only then there is one in the copy.
Tampering(replaces) ==
  /\ audit.at # "ended" /\ audit.tampered < MaxReplaced
  /\ audit' = [audit EXCEPT !.tampered = @ + 1]
  /\ replaces

ReleaseReplaced(a) ==
  /\ audit.at = "copy" /\ a \in audit.left
  /\ Tampering(\E content \in Contents \ {release[a]} :
                 release' = [release EXCEPT ![a] = content])
  /\ UNCHANGED private

ArchiveReplaced(a) ==
  /\ audit.at = "copy" => a \notin audit.left
  /\ Tampering(\E content \in Contents \ {private.archives[a]} :
                 private' = [private EXCEPT !.archives[a] = content, !.replaced[a] = @ + 1])
  /\ UNCHANGED release

ManifestReplaced ==
  /\ Tampering(\E manifest \in Manifests \ {private.manifest} :
                 private' = [private EXCEPT !.manifest = manifest, !.version = @ + 1])
  /\ UNCHANGED release

-----------------------------------------------------------------------------
AuditGoes(changed) == audit' = changed /\ UNCHANGED <<release, private>>
Verdict(ok) == AuditGoes([audit EXCEPT !.at = "ended", !.ok = ok])
AllRead == audit.left = {}

\* A read is refused or raises, a digest or a declaration is wrong, a gate has an issue:
\* whatever comes after it, the verdict is not ok.
ReleaseRefused == audit.at # "ended" /\ Verdict(FALSE)

\* _copy_snapshot_file: the digest of what was copied must be the declared one.
ArchiveCopied(a) ==
  /\ audit.at = "copy" /\ a \in audit.left
  /\ release[a] = audit.copied.declares[a]
  /\ audit' = [audit EXCEPT !.left = @ \ {a}]
  /\ private' = [private EXCEPT !.archives[a] = release[a]]
  /\ UNCHANGED release

\* scan_release_manifest reads the manifest of the copy, then each archive, and looks
\* again whether the manifest is the same file.
GateBegins ==
  /\ AllRead
  /\ audit.at \in {"copy", "audited"}
  /\ AuditGoes([audit EXCEPT !.at = "gate", !.left = Artifacts, !.gates = @ + 1,
                         !.seen = private.manifest, !.version = private.version])

ArchiveScanned(a) ==
  /\ audit.at = "gate" /\ a \in audit.left
  /\ private.archives[a] = audit.seen.declares[a]
  /\ private.archives[a] # "leaky"
  /\ AuditGoes([audit EXCEPT !.left = @ \ {a}])

GatePasses == audit.at = "gate" /\ AllRead /\ private.version = audit.version

\* The first gate passed.  When it read another manifest than the one that was copied the
\* audit is skipped, and nothing that release_status looks at says so.
FirstGatePasses ==
  /\ GatePasses /\ audit.gates = 1
  /\ IF audit.seen # audit.copied THEN Verdict(~audit.dirty)
     ELSE IF audit.dirty THEN Verdict(FALSE)
     ELSE AuditGoes([audit EXCEPT !.at = "audit"])

SecondGatePasses ==
  /\ GatePasses /\ audit.gates = 2
  /\ Verdict(audit.seen = audit.copied /\ ~audit.issue)

\* audit_release_artifact_manifest: what it lists is compared with the gate's evidence at
\* the end, so that an audit of another manifest is refused.
AuditBegins ==
  /\ audit.at = "audit"
  /\ private.manifest = audit.copied
  /\ AuditGoes([audit EXCEPT !.at = "hash", !.left = Artifacts,
                         !.issue = private.manifest.revision # "head"])

\* audit_artifact_entries: all are hashed, and if nothing was wrong all are examined.
ArchiveHashed(a) ==
  /\ audit.at = "hash" /\ a \in audit.left
  /\ AuditGoes([audit EXCEPT !.left = @ \ {a},
                         !.issue = @ \/ private.archives[a] # audit.copied.declares[a]])

AllHashed ==
  /\ audit.at = "hash" /\ AllRead
  /\ AuditGoes(IF audit.issue THEN [audit EXCEPT !.at = "audited"]
          ELSE [audit EXCEPT !.at = "examine", !.left = Artifacts])

ArchiveExamined(a) ==
  /\ audit.at = "examine" /\ a \in audit.left
  /\ AuditGoes([audit EXCEPT !.left = @ \ {a}, !.issue = @ \/ private.archives[a] = "foreign"])

\* Fault: the gate does not read the copy again
FaultAuditEnds == audit.at = "examine" /\ AllRead /\ Verdict(~audit.issue)

AuditEnds ==
  /\ audit.at = "examine" /\ AllRead
  /\ AuditGoes([audit EXCEPT !.at = "audited"])

ReleaseNext ==
  \/ GateBegins \/ FirstGatePasses \/ SecondGatePasses
  \/ AuditBegins \/ AllHashed \/ AuditEnds \/ ReleaseRefused \/ ManifestReplaced
  \/ \E a \in Artifacts :
       \/ ArchiveCopied(a) \/ ArchiveScanned(a) \/ ArchiveHashed(a) \/ ArchiveExamined(a)
       \/ ReleaseReplaced(a) \/ ArchiveReplaced(a)

ReleaseSpec == ReleaseInit /\ [][ReleaseNext]_releaseVars

-----------------------------------------------------------------------------
ReleaseTypeOK ==
  /\ release \in [Artifacts -> Contents]
  /\ private \in [manifest : Manifests, version : 0 .. MaxReplaced,
                  archives : [Artifacts -> Contents], replaced : [Artifacts -> 0 .. MaxReplaced]]
  /\ audit \in [at : {"copy", "gate", "audit", "hash", "examine", "audited", "ended"},
                 left : SUBSET Artifacts, gates : 0 .. 2, dirty : BOOLEAN, copied : Manifests,
                 seen : Manifests, version : 0 .. MaxReplaced, issue : BOOLEAN, ok : BOOLEAN,
                 tampered : 0 .. MaxReplaced]

\* release_status says ok only of a clean worktree and of a release of its revision that
\* holds no credential, whatever is done to the release and the copy meanwhile.  Each
\* archive is what the sources make, or was replaced in the copy for the audit and put
\* back before the second gate.  One hole is left: when the manifest of the copy was
\* replaced before the first gate, that gate's word for the others is taken for the whole.
ReleaseIsEarned ==
  audit.ok =>
    /\ ~audit.dirty
    /\ \/ audit.gates = 1 /\ audit.seen # audit.copied /\ audit.version > 0
       \/ /\ audit.copied.revision = "head"
          /\ \A a \in Artifacts :
               \/ audit.copied.declares[a] = "sound"
               \/ audit.copied.declares[a] = "foreign" /\ private.replaced[a] >= 2
=============================================================================
