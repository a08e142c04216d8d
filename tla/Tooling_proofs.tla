---------------------------- MODULE Tooling_proofs ----------------------------
(***************************************************************************)
(* What six of the tools say is so, and what they own is accounted for:    *)
(* proofs about ReleaseAudit, OwnedFiles, AcceptanceSession, ShardWorker,  *)
(* MergeGate and ProcessWatchdog, for any number of artifacts,             *)
(* replacements, parts, runs of a workflow and their attempts, closers of  *)
(* a watchdog and faults.                                                  *)
(***************************************************************************)
EXTENDS ReleaseAudit, OwnedFiles, AcceptanceSession, ShardWorker, MergeGate, ProcessWatchdog,
        TLAPS, SequenceTheorems, FiniteSetTheorems, WellFoundedInduction

-----------------------------------------------------------------------------
\* ReleaseAudit.  Nothing in the copy was replaced more often than somebody was at work,
\* and a manifest that nobody replaced is the one that was copied.
Replacements ==
  /\ private.version <= audit.tampered
  /\ \A a \in Artifacts : private.replaced[a] <= audit.tampered
  /\ private.version = 0 => private.manifest = audit.copied
  /\ audit.version = 0 => audit.seen = audit.copied

\* The gates before this step, and what the first of them let pass.
Gates ==
  /\ audit.ok => audit.at = "ended"
  /\ audit.at = "copy" => audit.gates = 0
  /\ audit.at = "gate" => audit.gates \in {1, 2}
  /\ audit.at \in {"audit", "hash", "examine", "audited"} => audit.gates = 1
  /\ \/ audit.at \in {"audit", "hash", "examine", "audited"}
     \/ audit.at = "gate" /\ audit.gates = 2
     => ~audit.dirty
  /\ audit.at = "gate" => \A a \in Artifacts \ audit.left : audit.seen.declares[a] # "leaky"

SecondGate == audit.at = "gate" /\ audit.gates = 2

\* What the audit has seen, when it found nothing wrong: a foreign archive was there as
\* it was declared, then it was not, and the second gate wants it there again.
Audited ==
  ~audit.issue =>
    /\ audit.at \in {"hash", "examine", "audited"} \/ SecondGate
         => audit.copied.revision = "head"
    /\ \A a \in Artifacts :
         audit.copied.declares[a] = "foreign" =>
           /\ \/ audit.at = "hash" /\ a \notin audit.left
              \/ audit.at = "examine"
              => private.archives[a] = "foreign" \/ private.replaced[a] >= 1
           /\ \/ audit.at = "examine" /\ a \notin audit.left
              \/ audit.at = "audited" \/ SecondGate
              => /\ private.replaced[a] >= 1
                 /\ private.archives[a] = "foreign" => private.replaced[a] >= 2
           /\ SecondGate /\ a \notin audit.left /\ audit.seen = audit.copied
              => private.replaced[a] >= 2

ReleaseInv == ReleaseTypeOK /\ Replacements /\ Gates /\ Audited /\ ReleaseIsEarned

LEMMA InitReleaseInv == ReleaseInit => ReleaseInv
<1> SUFFICES ASSUME ReleaseInit PROVE ReleaseInv OBVIOUS
<1> QED
  BY ReleaseAssumption DEF ReleaseInit, ReleaseInv, ReleaseTypeOK, Replacements, Gates, Audited,
     SecondGate, ReleaseIsEarned, Manifests

LEMMA NextReleaseType ==
  ASSUME ReleaseTypeOK, Replacements, Gates, [ReleaseNext]_releaseVars
  PROVE  ReleaseTypeOK'
<1> USE ReleaseAssumption DEF ReleaseTypeOK, AuditGoes, AllRead
<1>1. CASE UNCHANGED releaseVars BY <1>1 DEF releaseVars
<1>2. CASE ReleaseRefused BY <1>2 DEF ReleaseRefused, Verdict
<1>3. CASE GateBegins
  <2>1. audit.gates + 1 \in 0 .. 2 BY <1>3 DEF GateBegins, Gates
  <2> QED BY <1>3, <2>1 DEF GateBegins
<1>4. CASE FirstGatePasses
  <2>1. ASSUME NEW ok \in BOOLEAN, Verdict(ok) PROVE ReleaseTypeOK' BY <2>1 DEF Verdict
  <2>2. CASE AuditGoes([audit EXCEPT !.at = "audit"]) BY <2>2
  <2> QED BY <1>4, <2>1, <2>2 DEF FirstGatePasses
<1>5. CASE SecondGatePasses BY <1>5 DEF SecondGatePasses, GatePasses, Verdict
<1>6. CASE AuditBegins BY <1>6 DEF AuditBegins
<1>7. CASE AllHashed BY <1>7 DEF AllHashed
<1>8. CASE AuditEnds BY <1>8 DEF AuditEnds
<1>9. CASE ManifestReplaced
  <2>1. /\ private.version + 1 \in 0 .. MaxReplaced
        /\ audit.tampered + 1 \in 0 .. MaxReplaced
    BY <1>9 DEF ManifestReplaced, Tampering, Replacements
  <2> QED BY <1>9, <2>1 DEF ManifestReplaced, Tampering
<1>10. ASSUME NEW a \in Artifacts,
              ArchiveScanned(a) \/ ArchiveHashed(a) \/ ArchiveExamined(a)
       PROVE  ReleaseTypeOK'
  <2>1. ASSUME NEW left \in SUBSET Artifacts, NEW issue \in BOOLEAN,
               AuditGoes([audit EXCEPT !.left = left, !.issue = issue])
        PROVE  ReleaseTypeOK'
    BY <2>1
  <2>2. audit.left \ {a} \in SUBSET Artifacts OBVIOUS
  <2>3. audit.issue \in BOOLEAN OBVIOUS
  <2>4. CASE ArchiveScanned(a) BY <2>4, <2>2 DEF ArchiveScanned
  <2>5. CASE ArchiveHashed(a) BY <2>5, <2>2 DEF ArchiveHashed
  <2>6. CASE ArchiveExamined(a) BY <2>6, <2>2 DEF ArchiveExamined
  <2> QED BY <1>10, <2>4, <2>5, <2>6
<1>11. ASSUME NEW a \in Artifacts, ArchiveCopied(a) PROVE ReleaseTypeOK'
  BY <1>11 DEF ArchiveCopied
<1>12. ASSUME NEW a \in Artifacts, ReleaseReplaced(a) PROVE ReleaseTypeOK'
  BY <1>12 DEF ReleaseReplaced, Tampering
<1>13. ASSUME NEW a \in Artifacts, ArchiveReplaced(a) PROVE ReleaseTypeOK'
  <2>1. /\ private.replaced[a] + 1 \in 0 .. MaxReplaced
        /\ audit.tampered + 1 \in 0 .. MaxReplaced
    BY <1>13 DEF ArchiveReplaced, Tampering, Replacements
  <2>2. audit' = [audit EXCEPT !.tampered = @ + 1] /\ release' = release
    BY <1>13 DEF ArchiveReplaced, Tampering
  <2>3. PICK content \in Contents :
          private' = [private EXCEPT !.archives[a] = content, !.replaced[a] = @ + 1]
    BY <1>13 DEF ArchiveReplaced, Tampering
  <2>4. /\ [private.archives EXCEPT ![a] = content] \in [Artifacts -> Contents]
        /\ [private.replaced EXCEPT ![a] = @ + 1] \in [Artifacts -> 0 .. MaxReplaced]
    BY <2>1
  <2>5. private' \in [manifest : Manifests, version : 0 .. MaxReplaced,
                      archives : [Artifacts -> Contents],
                      replaced : [Artifacts -> 0 .. MaxReplaced]]
    BY <2>3, <2>4
  <2> QED BY <2>1, <2>2, <2>5
<1> QED
  BY <1>1, <1>2, <1>3, <1>4, <1>5, <1>6, <1>7, <1>8, <1>9, <1>10, <1>11, <1>12, <1>13
     DEF ReleaseNext

LEMMA NextReplacements ==
  ASSUME ReleaseTypeOK, Replacements, [ReleaseNext]_releaseVars
  PROVE  Replacements'
<1> USE DEF ReleaseTypeOK, Replacements, AuditGoes
<1>1. CASE UNCHANGED private /\ audit'.tampered = audit.tampered /\ audit'.copied = audit.copied
           /\ audit'.version = audit.version /\ audit'.seen = audit.seen
  BY <1>1
<1>2. CASE GateBegins BY <1>2 DEF GateBegins
<1>3. CASE ManifestReplaced BY <1>3 DEF ManifestReplaced, Tampering
<1>4. ASSUME NEW a \in Artifacts, ArchiveCopied(a) PROVE Replacements' BY <1>4 DEF ArchiveCopied
<1>5. ASSUME NEW a \in Artifacts, ReleaseReplaced(a) PROVE Replacements'
  BY <1>5 DEF ReleaseReplaced, Tampering
<1>6. ASSUME NEW a \in Artifacts, ArchiveReplaced(a) PROVE Replacements'
  <2>1. private'.replaced = [private.replaced EXCEPT ![a] = @ + 1]
        /\ private'.version = private.version /\ private'.manifest = private.manifest
        /\ audit'.tampered = audit.tampered + 1 /\ audit'.copied = audit.copied
        /\ audit'.version = audit.version /\ audit'.seen = audit.seen
    BY <1>6 DEF ArchiveReplaced, Tampering
  <2>2. \A b \in Artifacts : private'.replaced[b] \in {private.replaced[b], private.replaced[b] + 1}
    BY <2>1
  <2> QED BY <2>1, <2>2
<1>7. CASE UNCHANGED releaseVars \/ FirstGatePasses \/ SecondGatePasses \/ ReleaseRefused
  BY <1>1, <1>7 DEF releaseVars, FirstGatePasses, SecondGatePasses, ReleaseRefused, Verdict
<1>8. CASE AuditBegins \/ AllHashed \/ AuditEnds
  BY <1>1, <1>8 DEF AuditBegins, AllHashed, AuditEnds
<1>9. ASSUME NEW a \in Artifacts, ArchiveScanned(a) \/ ArchiveHashed(a) \/ ArchiveExamined(a)
      PROVE  Replacements'
  BY <1>1, <1>9 DEF ArchiveScanned, ArchiveHashed, ArchiveExamined
<1> QED BY <1>2, <1>3, <1>4, <1>5, <1>6, <1>7, <1>8, <1>9 DEF ReleaseNext

LEMMA NextReleaseInv ==
  ASSUME ReleaseInv, [ReleaseNext]_releaseVars
  PROVE  ReleaseInv'
<1>1. ReleaseTypeOK' /\ Replacements' BY NextReleaseType, NextReplacements DEF ReleaseInv
<1>2. Gates'
  <2> USE DEF ReleaseInv, ReleaseTypeOK, Gates, AuditGoes, AllRead, Verdict, Tampering
  <2>1. CASE UNCHANGED releaseVars \/ ReleaseRefused \/ ManifestReplaced
    BY <2>1 DEF releaseVars, ReleaseRefused, ManifestReplaced
  <2>2. CASE GateBegins BY <2>2 DEF GateBegins
  <2>3. CASE FirstGatePasses
    <3>1. ASSUME NEW ok \in BOOLEAN, Verdict(ok) PROVE Gates'
      <4>1. audit'.at = "ended" BY <3>1
      <4> QED BY <4>1
    <3>2. ASSUME ~audit.dirty, audit.gates = 1, AuditGoes([audit EXCEPT !.at = "audit"])
          PROVE  Gates'
      <4>1. /\ audit'.at = "audit" /\ audit'.gates = 1 /\ ~audit'.dirty
            /\ audit'.ok = audit.ok /\ ~audit.ok
        BY <2>3, <3>2 DEF FirstGatePasses, GatePasses
      <4> QED BY <4>1
    <3> QED BY <2>3, <3>1, <3>2 DEF FirstGatePasses
  <2>4. CASE SecondGatePasses BY <2>4 DEF SecondGatePasses, GatePasses
  <2>7. CASE AuditBegins \/ AllHashed
    <3>1. CASE AuditBegins
      <4>1. /\ audit.at = "audit" /\ audit'.at = "hash"
            /\ audit'.gates = audit.gates /\ audit'.ok = audit.ok /\ audit'.dirty = audit.dirty
        BY <3>1 DEF AuditBegins
      <4> QED BY <4>1
    <3>2. CASE AllHashed
      <4>1. /\ audit.at = "hash" /\ audit'.at \in {"examine", "audited"}
            /\ audit'.gates = audit.gates /\ audit'.ok = audit.ok /\ audit'.dirty = audit.dirty
        BY <3>2 DEF AllHashed
      <4> QED BY <4>1
    <3> QED BY <2>7, <3>1, <3>2
  <2>8. CASE AuditEnds BY <2>8 DEF AuditEnds
  <2>5. ASSUME NEW a \in Artifacts, ArchiveScanned(a) PROVE Gates' BY <2>5 DEF ArchiveScanned
  <2>6. ASSUME NEW a \in Artifacts,
               ArchiveCopied(a) \/ ArchiveHashed(a) \/ ArchiveExamined(a)
               \/ ReleaseReplaced(a) \/ ArchiveReplaced(a)
        PROVE  Gates'
    BY <2>6 DEF ArchiveCopied, ArchiveHashed, ArchiveExamined, ReleaseReplaced, ArchiveReplaced
  <2> QED BY <2>1, <2>2, <2>3, <2>4, <2>5, <2>6, <2>7, <2>8 DEF ReleaseNext
<1>3. Audited'
  <2> USE DEF ReleaseInv, ReleaseTypeOK, Gates, Audited, SecondGate, AuditGoes, AllRead, Verdict,
              Tampering
  <2>1. CASE UNCHANGED releaseVars BY <2>1 DEF releaseVars
  <2>10. CASE ReleaseRefused \/ ManifestReplaced
    <3>1. CASE ReleaseRefused
      <4>1. audit' = [audit EXCEPT !.at = "ended", !.ok = FALSE] /\ private' = private
        BY <3>1 DEF ReleaseRefused
      <4> QED BY <4>1
    <3>2. CASE ManifestReplaced
      <4>1. /\ audit' = [audit EXCEPT !.tampered = @ + 1]
            /\ private'.archives = private.archives
        BY <3>2 DEF ManifestReplaced
      <4>2. private'.replaced = private.replaced BY <3>2 DEF ManifestReplaced
      <4> QED BY <4>1, <4>2
    <3> QED BY <2>10, <3>1, <3>2
  <2>2. CASE GateBegins
    <3>1. /\ private' = private /\ audit'.copied = audit.copied /\ audit'.issue = audit.issue
          /\ audit'.at = "gate" /\ audit'.left = Artifacts /\ audit.at \in {"copy", "audited"}
          /\ audit'.gates = 2 => audit.at = "audited"
      BY <2>2 DEF GateBegins
    <3> QED BY <3>1
  <2>3. CASE FirstGatePasses \/ SecondGatePasses
    <3>1. audit'.at \in {"audit", "ended"} BY <2>3 DEF FirstGatePasses, SecondGatePasses
    <3> QED BY <3>1
  <2>4. CASE AuditBegins BY <2>4 DEF AuditBegins
  <2>11. CASE AllHashed BY <2>11 DEF AllHashed
  <2>12. CASE AuditEnds BY <2>12 DEF AuditEnds
  <2>5. ASSUME NEW a \in Artifacts, ArchiveScanned(a) PROVE Audited' BY <2>5 DEF ArchiveScanned
  <2>6. ASSUME NEW a \in Artifacts, ArchiveHashed(a) PROVE Audited'
    <3>1. /\ audit.at = "hash" /\ audit'.at = "hash" /\ audit'.left = audit.left \ {a}
          /\ audit'.copied = audit.copied /\ private' = private
          /\ ~audit'.issue => ~audit.issue /\ private.archives[a] = audit.copied.declares[a]
      BY <2>6 DEF ArchiveHashed
    <3> QED BY <3>1
  <2>7. ASSUME NEW a \in Artifacts, ArchiveExamined(a) PROVE Audited'
    <3>1. /\ audit.at = "examine" /\ audit'.at = "examine" /\ audit'.left = audit.left \ {a}
          /\ audit'.copied = audit.copied /\ private' = private
          /\ ~audit'.issue => ~audit.issue /\ private.archives[a] # "foreign"
      BY <2>7 DEF ArchiveExamined
    <3> QED BY <3>1
  <2>8. ASSUME NEW a \in Artifacts, ArchiveCopied(a) \/ ReleaseReplaced(a) PROVE Audited'
    BY <2>8 DEF ArchiveCopied, ReleaseReplaced
  <2>9. ASSUME NEW a \in Artifacts, ArchiveReplaced(a) PROVE Audited'
    <3>1. /\ audit' = [audit EXCEPT !.tampered = @ + 1]
          /\ private'.replaced = [private.replaced EXCEPT ![a] = @ + 1]
          /\ \A b \in Artifacts \ {a} : private'.archives[b] = private.archives[b]
      BY <2>9 DEF ArchiveReplaced
    <3>2. \A b \in Artifacts :
            \/ /\ private'.replaced[b] = private.replaced[b]
               /\ private'.archives[b] = private.archives[b]
            \/ private'.replaced[b] = private.replaced[b] + 1
      BY <3>1
    <3>3. /\ audit'.at = audit.at /\ audit'.left = audit.left /\ audit'.gates = audit.gates
          /\ audit'.issue = audit.issue /\ audit'.copied = audit.copied
          /\ audit'.seen = audit.seen
      BY <3>1
    <3>4. \A b \in Artifacts : private.replaced[b] \in Nat OBVIOUS
    <3> QED BY <3>2, <3>3, <3>4
  <2> QED
    BY <2>1, <2>2, <2>3, <2>4, <2>5, <2>6, <2>7, <2>8, <2>9, <2>10, <2>11, <2>12 DEF ReleaseNext
<1>4. ReleaseIsEarned'
  <2> USE DEF ReleaseInv, ReleaseTypeOK, Gates, ReleaseIsEarned, AuditGoes, AllRead, Verdict,
              Tampering
  <2>1. CASE FirstGatePasses
    <3>1. CASE audit'.ok
      <4>1. /\ audit.gates = 1 /\ audit.seen # audit.copied /\ ~audit.dirty
            /\ audit' = [audit EXCEPT !.at = "ended", !.ok = ~audit.dirty]
        BY <2>1, <3>1 DEF FirstGatePasses, GatePasses
      <4>2. audit.version \in Nat /\ audit.version # 0 BY <4>1 DEF Replacements
      <4> QED BY <4>1, <4>2
    <3> QED BY <3>1
  <2>2. CASE SecondGatePasses
    <3>1. CASE audit'.ok
      <4>1. /\ audit.seen = audit.copied /\ ~audit.issue /\ audit.left = {} /\ SecondGate
            /\ private' = private /\ audit'.copied = audit.copied /\ audit'.dirty = audit.dirty
        BY <2>2, <3>1 DEF SecondGatePasses, GatePasses, SecondGate
      <4>2. \A a \in Artifacts : audit.copied.declares[a] \in {"sound", "foreign"}
        BY <4>1 DEF SecondGate, Manifests, Contents
      <4> QED BY <4>1, <4>2 DEF Audited, SecondGate
    <3> QED BY <3>1
  <2>3. CASE UNCHANGED releaseVars BY <2>3 DEF releaseVars
  <2>4. CASE ReleaseRefused \/ ManifestReplaced
    <3>1. ~audit'.ok BY <2>4 DEF ReleaseRefused, ManifestReplaced
    <3> QED BY <3>1
  <2>5. CASE GateBegins \/ AuditBegins \/ AllHashed \/ AuditEnds
    BY <2>5 DEF GateBegins, AuditBegins, AllHashed, AuditEnds
  <2>6. ASSUME NEW a \in Artifacts,
               ArchiveCopied(a) \/ ArchiveScanned(a) \/ ArchiveHashed(a) \/ ArchiveExamined(a)
               \/ ReleaseReplaced(a) \/ ArchiveReplaced(a)
        PROVE  ReleaseIsEarned'
    BY <2>6 DEF ArchiveCopied, ArchiveScanned, ArchiveHashed, ArchiveExamined, ReleaseReplaced,
                ArchiveReplaced
  <2> QED BY <2>1, <2>2, <2>3, <2>4, <2>5, <2>6 DEF ReleaseNext
<1> QED BY <1>1, <1>2, <1>3, <1>4 DEF ReleaseInv

\* However often and whenever somebody replaces an archive or the manifest: the verdict
\* ok is earned, by the inductive invariant above.
THEOREM ReleaseEarned == ReleaseSpec => []ReleaseIsEarned
<1>1. ReleaseInv => ReleaseIsEarned BY DEF ReleaseInv
<1> QED BY <1>1, InitReleaseInv, NextReleaseInv, PTL DEF ReleaseSpec

-----------------------------------------------------------------------------
\* OwnedFiles.  The fields of the records.
OwnedFields ==
  /\ writer \in [use : {"read", "copy", "publish"}, windows : BOOLEAN, open : BOOLEAN,
                 got : Seq(0 .. MaxChanges),
                 at : {"look", "open", "create", "move", "measure", "verify", "stat", "rename",
                       "again", "close", "clean", "ended"},
                 seen : File, shown : BOOLEAN, result : {"none", "returned", "raised"}]
  /\ source \in [there : File, held : File]
  /\ folder \in [pinned : BOOLEAN, name : {"none", "own", "other"},
                 output : {"old", "own", "other"}, parts : 0 .. Chunks, changes : 0 .. MaxChanges]

\* The source is changed forward only, and what the call holds is the file
\* at the path or an older one.
SourceHeld ==
  /\ source.there.object <= folder.changes /\ source.there.version <= folder.changes
  /\ source.held.object <= source.there.object
  /\ source.held.object = source.there.object => source.held = source.there
  /\ source.held.version <= folder.changes

\* Where the call is says how much of the file is there.
Progress ==
  /\ Len(writer.got) = folder.parts
  /\ writer.at \in {"look", "open", "create"} => folder.parts = 0
  /\ writer.at = "move" => folder.parts < Chunks
  /\ writer.at \in {"measure", "verify", "stat", "rename", "again", "close"}
       => folder.parts = Chunks
  /\ folder.output = "own" => folder.parts = Chunks
  /\ writer.at = "measure" => writer.use # "publish"
  /\ writer.at \in {"stat", "rename"} => writer.use = "publish"
  /\ writer.result = "returned" => writer.at = "ended" /\ folder.parts = Chunks
  /\ writer.at = "close" \/ writer.result = "returned" => writer.shown

\* Each part is of a version between the one that was looked at and the one that is held;
\* once both are found to be one, so are they all.
PartsRead ==
  writer.use # "publish" =>
    /\ writer.at \in {"create", "move", "measure"} =>
         /\ source.held.object = writer.seen.object
         /\ writer.seen.version <= source.held.version
         /\ \A i \in 1 .. Len(writer.got) :
              writer.got[i] \in writer.seen.version .. source.held.version
    /\ writer.at \in {"verify", "again", "close"} \/ writer.result = "returned" =>
         \A i \in 1 .. Len(writer.got) : writer.got[i] = writer.seen.version

OwnedFilesInv == OwnedFields /\ SourceHeld /\ Progress /\ PartsRead

LEMMA InitOwnedFilesInv == OwnedFilesInit => OwnedFilesInv
<1> SUFFICES ASSUME OwnedFilesInit PROVE OwnedFilesInv OBVIOUS
<1>1. FirstFile \in File BY OwnedFilesAssumption DEF FirstFile, File
<1>2. <<>> \in Seq(0 .. MaxChanges) /\ Len(<<>>) = 0 OBVIOUS
<1> QED
  BY <1>1, <1>2, OwnedFilesAssumption
     DEF OwnedFilesInit, OwnedFilesInv, OwnedFields, SourceHeld, Progress, PartsRead, FirstFile

LEMMA OwnedFilesWhole ==
  ASSUME OwnedFilesInv
  PROVE  OwnedFilesTypeOK /\ FilesAreWhole
<1>1. writer.got \in Seq(0 .. MaxChanges) BY DEF OwnedFilesInv, OwnedFields
<1>2. writer.got = [i \in 1 .. Len(writer.got) |-> writer.got[i]] BY <1>1
<1>3. ASSUME writer.result = "returned", writer.use # "publish"
      PROVE  writer.got = [i \in 1 .. Chunks |-> writer.seen.version]
  <2>1. Len(writer.got) = Chunks BY <1>3 DEF OwnedFilesInv, Progress
  <2>2. \A i \in 1 .. Chunks : writer.got[i] = writer.seen.version
    BY <1>3, <2>1 DEF OwnedFilesInv, PartsRead
  <2> QED BY <1>2, <2>1, <2>2
<1>4. Len(writer.got) <= Chunks BY OwnedFilesAssumption DEF OwnedFilesInv, Progress, OwnedFields
<1> QED
  BY <1>1, <1>3, <1>4 DEF OwnedFilesInv, OwnedFields, Progress, OwnedFilesTypeOK, FilesAreWhole

\* The source and the folder as somebody else may change them.
LEMMA SomebodyKeepsOwned ==
  ASSUME OwnedFilesInv, SomebodyChanges
  PROVE  OwnedFilesInv'
<1> USE OwnedFilesAssumption DEF OwnedFilesInv, SomebodyChanges
<1>1. folder.changes + 1 \in 0 .. MaxChanges BY DEF OwnedFields
<1>2. CASE SourceChanges
  <2> DEFINE edited == [there |-> [source.there EXCEPT !.version = @ + 1],
                        held |-> IF source.held.object = source.there.object
                                 THEN [source.held EXCEPT !.version = @ + 1] ELSE source.held]
             replaced == [source EXCEPT !.there = [object |-> @.object + 1, version |-> 0]]
  <2>1. source' \in {edited, replaced}
        /\ folder' = [folder EXCEPT !.changes = @ + 1] /\ writer' = writer
    BY <1>2 DEF SourceChanges
  <2>2. /\ source.there \in File /\ source.held \in File
        /\ folder.changes \in 0 .. MaxChanges
    BY DEF OwnedFields
  <2>3. CASE source' = edited
    <3>1. edited.there = [object |-> source.there.object, version |-> source.there.version + 1]
      BY <2>2 DEF File
    <3>2. edited.held = IF source.held.object = source.there.object
                        THEN [object |-> source.held.object, version |-> source.held.version + 1]
                        ELSE source.held
      BY <2>2 DEF File
    <3>3. edited.there \in File /\ edited.held \in File
      BY <3>1, <3>2, <1>1, <2>2 DEF File, SourceHeld
    <3> HIDE DEF edited
    <3>4. source'.there = edited.there /\ source'.held = edited.held BY <2>3
    <3>5. OwnedFields' BY <2>1, <2>3, <3>3, <1>1 DEF OwnedFields, edited
    <3>6. SourceHeld' BY <2>1, <2>2, <3>4, <3>1, <3>2 DEF SourceHeld, OwnedFields, File
    <3>7. Progress' BY <2>1 DEF Progress, OwnedFields
    <3>8. PartsRead'
      <4>1. /\ source'.held.object = source.held.object
            /\ source'.held.version \in {source.held.version, source.held.version + 1}
        BY <3>4, <3>2
      <4>2. source.held.version \in Nat /\ writer.seen.version \in Nat BY DEF OwnedFields, File
      <4>3. \A i \in 1 .. Len(writer.got) : writer.got[i] \in Nat BY DEF OwnedFields
      <4> QED BY <2>1, <4>1, <4>2, <4>3 DEF PartsRead
    <3> QED BY <3>5, <3>6, <3>7, <3>8
  <2>4. CASE source' = replaced
    <3>1. /\ source'.there = [object |-> source.there.object + 1, version |-> 0]
          /\ source'.held = source.held
      BY <2>4, <2>2 DEF OwnedFields
    <3>2. source'.there \in File BY <3>1, <1>1, <2>2 DEF File, SourceHeld
    <3>3. source' \in [there : File, held : File] BY <3>2, <2>4, <2>2 DEF OwnedFields
    <3>4. OwnedFields' BY <2>1, <3>3, <1>1 DEF OwnedFields
    <3>5. SourceHeld'
      <4>1. /\ source.there.object \in Nat /\ source.held.object \in Nat
            /\ source.held.version \in Nat /\ folder.changes \in Nat
        BY DEF OwnedFields, File
      <4>2. source'.held.object # source'.there.object BY <3>1, <4>1 DEF SourceHeld
      <4> QED BY <2>1, <2>2, <3>1, <4>1, <4>2 DEF SourceHeld
    <3>6. Progress' /\ PartsRead' BY <2>1, <3>1 DEF Progress, PartsRead, OwnedFields
    <3> QED BY <3>4, <3>5, <3>6
  <2> QED BY <2>1, <2>3, <2>4
<1>3. CASE FolderChanges
  <2>1. writer' = writer /\ source' = source BY <1>3 DEF FolderChanges
  <2>2. /\ folder' \in [pinned : BOOLEAN, name : {"none", "own", "other"},
                        output : {"old", "own", "other"}, parts : 0 .. Chunks,
                        changes : 0 .. MaxChanges]
        /\ folder'.changes = folder.changes + 1 /\ folder'.parts = folder.parts
        /\ folder'.output \in {folder.output, "other"}
    <3>1. folder' \in [pinned : BOOLEAN, name : {"none", "own", "other"},
                          output : {"old", "own", "other"}, parts : 0 .. Chunks,
                          changes : 0 .. MaxChanges]
      <4> DEFINE now == folder.changes + 1
      <4>1. now \in 0 .. MaxChanges BY <1>1 DEF OwnedFields
      <4>2. \/ folder' = [folder EXCEPT !.pinned = ~@, !.changes = now]
            \/ \E file \in {"none", "other"} :
                 folder' = [folder EXCEPT !.name = file, !.changes = now]
            \/ folder' = [folder EXCEPT !.output = "other", !.changes = now]
        BY <1>3 DEF FolderChanges
      <4>3. folder \in [pinned : BOOLEAN, name : {"none", "own", "other"},
                        output : {"old", "own", "other"}, parts : 0 .. Chunks,
                        changes : 0 .. MaxChanges]
        BY DEF OwnedFields
      <4> HIDE DEF now
      <4>4. CASE folder' = [folder EXCEPT !.pinned = ~@, !.changes = now] BY <4>1, <4>3, <4>4
      <4>5. CASE \E file \in {"none", "other"} :
                   folder' = [folder EXCEPT !.name = file, !.changes = now]
        BY <4>1, <4>3, <4>5
      <4>6. CASE folder' = [folder EXCEPT !.output = "other", !.changes = now]
        BY <4>1, <4>3, <4>6
      <4> QED BY <4>2, <4>4, <4>5, <4>6
    <3>2. folder'.changes = folder.changes + 1 /\ folder'.parts = folder.parts
      BY <1>3, <1>1 DEF FolderChanges, OwnedFields
    <3>3. folder'.output \in {folder.output, "other"}
      BY <1>3, <1>1 DEF FolderChanges, OwnedFields
    <3> QED BY <3>1, <3>2, <3>3
  <2>3. OwnedFields' /\ PartsRead' BY <2>1, <2>2 DEF OwnedFields, PartsRead
  <2>4. Progress' BY <2>1, <2>2 DEF Progress
  <2>5. SourceHeld' BY <2>1, <2>2 DEF SourceHeld, OwnedFields, File
  <2> QED BY <2>3, <2>4, <2>5
<1> QED BY <1>2, <1>3

LEMMA PartKeepsOwned ==
  ASSUME OwnedFilesInv, PartMoved
  PROVE  OwnedFilesInv'
<1> USE OwnedFilesAssumption DEF OwnedFilesInv
<1>1. /\ writer.got \in Seq(0 .. MaxChanges) /\ source.held.version \in 0 .. MaxChanges
      /\ folder.parts \in 0 .. Chunks /\ writer.seen.version \in Nat
  BY DEF OwnedFields, File
<1>2. /\ writer'.got = Append(writer.got, source.held.version)
      /\ writer'.use = writer.use /\ writer'.seen = writer.seen /\ writer'.shown = writer.shown
      /\ writer'.result = writer.result /\ source' = source
      /\ folder' = [folder EXCEPT !.parts = @ + 1]
      /\ writer.at = "move" /\ folder.parts < Chunks
      /\ writer'.at = IF folder.parts + 1 < Chunks THEN "move"
                      ELSE IF writer.use = "publish" THEN "verify" ELSE "measure"
  BY DEF PartMoved, OwnedFields
<1>3. /\ writer'.got \in Seq(0 .. MaxChanges) /\ Len(writer'.got) = Len(writer.got) + 1
      /\ \A i \in 1 .. Len(writer.got) : writer'.got[i] = writer.got[i]
      /\ writer'.got[Len(writer.got) + 1] = source.held.version
  BY <1>1, <1>2
<1>4. OwnedFields'
  <2>1. writer' = [writer EXCEPT !.got = writer'.got, !.at = writer'.at] BY <1>2 DEF PartMoved
  <2>2. writer'.at \in {"move", "verify", "measure"} /\ folder.parts + 1 \in 0 .. Chunks
    BY <1>1, <1>2
  <2> QED BY <1>2, <1>3, <2>1, <2>2 DEF OwnedFields
<1>5. SourceHeld' /\ Progress' BY <1>1, <1>2, <1>3 DEF SourceHeld, Progress, OwnedFields
<1>6. PartsRead'
  <2>1. \A i \in 1 .. Len(writer'.got) : i \in 1 .. Len(writer.got) \/ i = Len(writer.got) + 1
    BY <1>1, <1>3
  <2>2. writer.use # "publish" =>
          /\ source.held.object = writer.seen.object
          /\ writer.seen.version <= source.held.version
          /\ \A i \in 1 .. Len(writer'.got) :
               writer'.got[i] \in writer.seen.version .. source.held.version
    BY <1>1, <1>2, <1>3, <2>1 DEF PartsRead
  <2>3. /\ writer.use # "publish" => writer'.at \in {"move", "measure"}
        /\ writer'.result # "returned"
    BY <1>2 DEF Progress
  <2> QED BY <1>2, <2>2, <2>3 DEF PartsRead
<1> QED BY <1>4, <1>5, <1>6

LEMMA NextOwnedFilesInv ==
  ASSUME OwnedFilesInv, [OwnedFilesNext]_ownedVars
  PROVE  OwnedFilesInv'
<1> USE OwnedFilesAssumption DEF OwnedFilesInv
<1>1. CASE UNCHANGED ownedVars
  BY <1>1 DEF ownedVars, OwnedFields, SourceHeld, Progress, PartsRead
<1>2. CASE SomebodyChanges \/ PartMoved BY <1>2, SomebodyKeepsOwned, PartKeepsOwned
<1>3. CASE Fails
  <2>1. PICK step \in {"clean", "ended"} :
          writer' = [writer EXCEPT !.result = "raised", !.open = FALSE, !.at = step]
    BY <1>3 DEF Fails
  <2>2. source' = source /\ folder' = folder BY <1>3 DEF Fails
  <2>3. OwnedFields' /\ SourceHeld'
    <3>1. writer' \in [use : {"read", "copy", "publish"}, windows : BOOLEAN, open : BOOLEAN,
                       got : Seq(0 .. MaxChanges),
                       at : {"look", "open", "create", "move", "measure", "verify", "stat",
                             "rename", "again", "close", "clean", "ended"},
                       seen : File, shown : BOOLEAN, result : {"none", "returned", "raised"}]
      <4>1. FALSE \in BOOLEAN /\ step \in {"clean", "ended"} OBVIOUS
      <4> QED BY <2>1, <4>1, ZenonT(20) DEF OwnedFields
    <3> QED BY <2>2, <3>1 DEF SourceHeld, OwnedFields
  <2>4. /\ writer'.at = step /\ writer'.result = "raised" /\ writer'.got = writer.got
        /\ writer'.use = writer.use
    BY <2>1 DEF OwnedFields
  <2>5. Progress' BY <2>2, <2>4 DEF Progress
  <2>6. PartsRead' BY <2>4 DEF PartsRead
  <2> QED BY <2>3, <2>5, <2>6
<1>4. CASE SourceLookedAt
  BY <1>4 DEF SourceLookedAt, OwnedFields, SourceHeld, Progress, PartsRead
<1>5. CASE SourceOpened
  <2>1. /\ source' = [source EXCEPT !.held = source.there] /\ folder' = folder
        /\ writer.at = "open" /\ writer.seen = source.there
        /\ writer' = [writer EXCEPT !.at = IF writer.use = "copy" THEN "create" ELSE "move"]
    BY <1>5 DEF SourceOpened
  <2>2. source'.there = source.there /\ source'.held = source.there BY <2>1 DEF OwnedFields
  <2>3. OwnedFields' /\ Progress' BY <2>1, <2>2 DEF OwnedFields, Progress
  <2>4. SourceHeld' BY <2>1, <2>2 DEF SourceHeld, OwnedFields, File
  <2>5. writer.got = <<>> /\ writer.seen.version \in Nat BY <2>1 DEF Progress, OwnedFields, File
  <2>6. PartsRead' BY <2>1, <2>2, <2>5 DEF PartsRead, OwnedFields, Progress
  <2> QED BY <2>3, <2>4, <2>6
<1>6. CASE TargetCreated
  <2>1. OwnedFields' /\ SourceHeld' BY <1>6 DEF TargetCreated, OwnedFields, SourceHeld
  <2>2. Progress' /\ PartsRead' BY <1>6 DEF TargetCreated, OwnedFields, Progress, PartsRead
  <2> QED BY <2>1, <2>2
<1>7. CASE SourceMeasured
  <2>1. /\ writer.at = "measure" /\ source.held = writer.seen
        /\ source' = source /\ folder' = folder /\ writer.use # "publish"
    BY <1>7 DEF SourceMeasured, Goes, Progress
  <2>2. PICK step \in {"verify", "again"} : writer' = [writer EXCEPT !.at = step]
    BY <1>7 DEF SourceMeasured, Goes
  <2>3. /\ writer'.at = step /\ writer'.result = writer.result /\ writer'.got = writer.got
        /\ writer'.use = writer.use /\ writer'.seen = writer.seen /\ writer'.shown = writer.shown
    BY <2>2 DEF OwnedFields
  <2>4. OwnedFields' /\ SourceHeld' BY <2>1, <2>2 DEF OwnedFields, SourceHeld
  <2>5. Progress' BY <2>1, <2>3 DEF Progress
  <2>6. writer.seen.version \in Nat /\ \A i \in 1 .. Len(writer.got) : writer.got[i] \in Nat
    BY DEF OwnedFields, File
  <2>7. \A i \in 1 .. Len(writer.got) : writer.got[i] = writer.seen.version
    BY <2>1, <2>6 DEF PartsRead
  <2>8. PartsRead' BY <2>1, <2>3, <2>7 DEF PartsRead
  <2> QED BY <2>4, <2>5, <2>8
<1>8. CASE TargetVerified \/ CandidateLookedAt
  <2>1. CASE TargetVerified
    <3>1. OwnedFields' /\ SourceHeld' BY <2>1 DEF TargetVerified, OwnedFields, SourceHeld
    <3>2. Progress' BY <2>1 DEF TargetVerified, OwnedFields, Progress
    <3>3. PartsRead' BY <2>1 DEF TargetVerified, OwnedFields, PartsRead
    <3> QED BY <3>1, <3>2, <3>3
  <2>2. CASE CandidateLookedAt
    BY <2>2 DEF CandidateLookedAt, Goes, OwnedFields, SourceHeld, Progress, PartsRead
  <2> QED BY <1>8, <2>1, <2>2
<1>9. CASE Renamed BY <1>9 DEF Renamed, OwnedFields, SourceHeld, Progress, PartsRead
<1>10. CASE LookedAgain
  <2>1. Expected \in BOOLEAN BY DEF Expected, TargetIsOwn, OwnedFields
  <2>2. /\ writer.at = "again" /\ Expected /\ source' = source /\ folder' = folder
        /\ writer' = [writer EXCEPT !.at = "close", !.shown = TRUE]
    BY <1>10, <2>1 DEF LookedAgain
  <2>3. OwnedFields' BY <2>2 DEF OwnedFields
  <2>4. SourceHeld' /\ Progress' BY <2>2 DEF OwnedFields, SourceHeld, Progress
  <2> QED BY <2>2, <2>3, <2>4 DEF OwnedFields, PartsRead
<1>11. CASE Returned \/ CandidateCleaned
  <2>1. CASE Returned
    <3>1. OwnedFields' /\ SourceHeld' BY <2>1 DEF Returned, OwnedFields, SourceHeld
    <3>2. Progress' BY <2>1 DEF Returned, OwnedFields, Progress
    <3>3. PartsRead' BY <2>1 DEF Returned, OwnedFields, PartsRead
    <3> QED BY <3>1, <3>2, <3>3
  <2>2. CASE CandidateCleaned
    BY <2>2 DEF CandidateCleaned, OwnedFields, SourceHeld, Progress, PartsRead
  <2> QED BY <1>11, <2>1, <2>2
<1> QED BY <1>1, <1>2, <1>3, <1>4, <1>5, <1>6, <1>7, <1>8, <1>9, <1>10, <1>11 DEF OwnedFilesNext

\* Whoever edits, replaces or moves what in between: what is read or copied is one version
\* of the source, and what is published is whole, in however many parts it is moved.
THEOREM FilesAreAlwaysWhole == OwnedFilesSpec => []FilesAreWhole
<1>1. OwnedFilesInv /\ [OwnedFilesNext]_ownedVars => OwnedFilesInv' BY NextOwnedFilesInv
<1>2. OwnedFilesInv => FilesAreWhole BY OwnedFilesWhole
<1> QED BY <1>1, <1>2, InitOwnedFilesInv, PTL DEF OwnedFilesSpec

-----------------------------------------------------------------------------
\* AcceptanceSession.  The fields of the records.
Sessions ==
  [at : Body \cup {"start", "snapshot", "detach", "close", "leave", "settle", "ended"},
   phase : Phases, permitted : BOOLEAN, armed : BOOLEAN, open : SUBSET Handles,
   snapshot : RootDirectories \cup {"none"}, pinned : RootDirectories \cup {"none"},
   good : SUBSET Phases, answer : {"none", "ok", "failed", "raised"}]

Faults ==
  [kind : {"none", "boundary", "ordinary", "control"}, debt : BOOLEAN, quiet : BOOLEAN,
   named : BOOLEAN]

AcceptancePlaces ==
  [root : RootDirectories \cup {"none", "removed"}, project : RootDirectories \cup {"none"},
   filled : BOOLEAN, process : {"none", "live", "quiet"}, deleted : SUBSET RootDirectories,
   troubles : 0 .. MaxTroubles]

AcceptanceFields == session \in Sessions /\ fault \in Faults /\ place \in AcceptancePlaces

\* Up to the end of the body nothing has been raised, answered or deleted, and nothing is
\* bound while the finalizer is armed.
BodyUndisturbed ==
  /\ session.at \in Body \cup {"start", "snapshot", "detach"} =>
       /\ fault = NoError /\ session.permitted /\ session.answer = "none"
       /\ place.process # "live"
  /\ session.at \in {"start", "snapshot", "detach"} =>
       place.process = "none" /\ place.deleted = {}
  /\ session.at \in {"start", "snapshot", "detach", "bind"} =>
       session.open = {} /\ session.pinned = "none"
  /\ session.at = "start" => place.root = "none"
  /\ session.at = "snapshot" => session.armed
  /\ session.at \in Body \cup {"snapshot", "detach", "close", "leave"} =>
       place.root \in RootDirectories
  /\ session.armed =>
       /\ session.at \in {"snapshot", "detach", "settle", "ended"}
       /\ place.process = "none" /\ place.root # "none" /\ session.pinned = "none"

\* The tests ran after a good import, and ok is said after both.
PhasesInTurn ==
  /\ session.phase = "gut" => "import" \in session.good
  /\ session.at = "finish" \/ session.answer = "ok" => session.good = Phases

\* What is being raised: handles that stay open and a process that may live forbid that
\* the root is cleaned.
DebtKept ==
  /\ fault.kind = "none" => fault = NoError
  /\ fault.named => fault.debt
  /\ fault = NoError => session.permitted
  /\ session.at \in {"close", "leave", "settle"} /\ fault = NoError
       => session.answer \in {"ok", "failed"}
  /\ session.at \in {"leave", "settle", "ended"} /\ ~fault.debt /\ session.open # {} =>
       fault.kind = "control"
  /\ session.at \in {"close", "leave"} /\ place.process = "live" => ~MayClean

\* A root that is there when the call is settled is named, or the finalizer deletes it;
\* one that is gone was the one whose identity was taken, or the finalizer deleted it.
RootSettled ==
  /\ "other" \in place.deleted =>
       (session.armed /\ session.at = "ended") \/ session.snapshot = "other"
  /\ place.root = "removed" /\ ~session.armed => session.snapshot \in place.deleted
  /\ place.root = "none" => session.pinned = "none"
  /\ place.root = "removed" =>
       session.at \in {"settle", "ended"} /\ place.process # "live"
  /\ session.at = "settle" =>
       /\ \/ place.root \in {"none", "removed"} \/ session.armed
          \/ fault.debt /\ fault.named
       /\ fault.named /\ ~session.armed => place.root # "removed"

AcceptanceInv ==
  AcceptanceFields /\ BodyUndisturbed /\ PhasesInTurn /\ DebtKept /\ RootSettled /\ RootAccounted

LEMMA InitAcceptanceInv == AcceptanceInit => AcceptanceInv
BY AcceptanceAssumption
   DEF AcceptanceInit, AcceptanceInv, AcceptanceFields, Sessions, Faults, AcceptancePlaces,
       BodyUndisturbed, PhasesInTurn, DebtKept, RootSettled, RootAccounted, NoError, Raised,
       Body, Phases, MayClean, RootDirectories

\* What may be raised in the body.
BodyErrors == [kind : {"boundary", "ordinary", "control"}, debt : BOOLEAN, quiet : BOOLEAN,
               named : {FALSE}]

USE DEF AcceptanceInv, AcceptanceFields, RootDirectories

LEMMA ErrorsOfBody ==
  /\ \A f \in Errors : f \in BodyErrors /\ ~f.debt /\ ~f.quiet
  /\ \A f \in BodyErrors : f # NoError
  /\ \A f \in BodyErrors \cup {NoError} : f \in Faults /\ ~f.named
<1>1. ASSUME NEW f \in Errors PROVE f \in BodyErrors /\ ~f.debt /\ ~f.quiet
  <2>1. PICK kind \in {"ordinary", "control"} : f = Raised(kind, FALSE, FALSE) BY DEF Errors
  <2> QED BY <2>1 DEF Raised, BodyErrors
<1>2. ASSUME NEW f \in BodyErrors PROVE f # NoError
  <2>1. f.kind # "none" /\ NoError.kind = "none" BY DEF BodyErrors, NoError, Raised
  <2> QED BY <2>1
<1>3. \A f \in BodyErrors : f \in Faults /\ ~f.named BY DEF BodyErrors, Faults
<1>4. NoError \in Faults /\ ~NoError.named BY DEF NoError, Raised, Faults
<1> QED BY <1>1, <1>2, <1>3, <1>4

\* The three ways in which a step of the body ends: it goes on,
LEMMA BodyGoesOn ==
  ASSUME AcceptanceInv, session.at \in Body, NEW step \in Body \ {"bind"}, StepsTo(step),
         step = "finish" => session.good = Phases
  PROVE  AcceptanceInv'
<1>1. /\ session' = [session EXCEPT !.at = step] /\ fault' = fault /\ place' = place
  BY DEF StepsTo
<1>2. /\ step \notin {"start", "snapshot", "detach", "bind", "close", "leave", "settle", "ended"}
      /\ session.at \notin {"start", "snapshot", "detach", "close", "leave", "settle", "ended"}
  BY DEF Body
<1>3. /\ session' \in Sessions
      /\ session'.at = step /\ session'.phase = session.phase
      /\ session'.snapshot = session.snapshot /\ session'.pinned = session.pinned
      /\ session'.permitted = session.permitted /\ session'.armed = session.armed
      /\ session'.open = session.open /\ session'.good = session.good
      /\ session'.answer = session.answer
  BY <1>1 DEF Sessions
<1>4. PhasesInTurn' BY <1>1, <1>3 DEF BodyUndisturbed, PhasesInTurn
<1>5. BodyUndisturbed' BY <1>1, <1>2, <1>3 DEF BodyUndisturbed
<1>6. DebtKept' /\ RootSettled' /\ RootAccounted'
  BY <1>1, <1>2, <1>3 DEF BodyUndisturbed, DebtKept, RootSettled, RootAccounted, Body
<1> QED BY <1>1, <1>3, <1>4, <1>5, <1>6

\* the call has its answer,
LEMMA BodyReturns ==
  ASSUME AcceptanceInv, session.at \in Body, NEW answer \in {"ok", "failed"}, Returns(answer),
         answer = "ok" => session.at = "finish"
  PROVE  AcceptanceInv'
<1>1. /\ session' = [session EXCEPT !.at = "close", !.answer = answer]
      /\ fault' = fault /\ place' = place
  BY DEF Returns
<1>2. /\ session.at \notin {"start", "snapshot", "detach", "close", "leave", "settle", "ended"}
      /\ "close" \notin Body
  BY DEF Body
<1>3. /\ session' \in Sessions
      /\ session'.at = "close" /\ session'.phase = session.phase
      /\ session'.snapshot = session.snapshot /\ session'.pinned = session.pinned
      /\ session'.permitted = session.permitted /\ session'.armed = session.armed
      /\ session'.open = session.open /\ session'.good = session.good
      /\ session'.answer = answer
  BY <1>1 DEF Sessions
<1>4. PhasesInTurn' BY <1>1, <1>3 DEF PhasesInTurn
<1>5. BodyUndisturbed' /\ DebtKept' /\ RootSettled' /\ RootAccounted'
  BY <1>1, <1>2, <1>3 DEF BodyUndisturbed, DebtKept, RootSettled, RootAccounted
<1> QED BY <1>1, <1>3, <1>4, <1>5

\* or something is raised: a process that may live comes with a debt, or with no
\* permission to clean.
LEMMA BodyRaises ==
  ASSUME AcceptanceInv, session.at \in Body, NEW f \in BodyErrors, NEW permitted \in BOOLEAN,
         NEW process \in {"none", "live", "quiet"}, Raises(f, permitted),
         place' = [place EXCEPT !.process = process],
         process = "live" => f.debt \/ (~permitted /\ ~f.quiet)
  PROVE  AcceptanceInv'
<1>1. /\ session' = [session EXCEPT !.at = "close", !.permitted = permitted] /\ fault' = f
  BY DEF Raises
<1>2. /\ session.at \notin {"start", "snapshot", "detach", "close", "leave", "settle", "ended"}
      /\ "close" \notin Body
  BY DEF Body
<1>3. /\ f.kind \in {"boundary", "ordinary", "control"} /\ f # NoError /\ ~f.named
      /\ f \in Faults
  BY ErrorsOfBody DEF BodyErrors, Faults
<1>4. /\ session' \in Sessions
      /\ session'.at = "close" /\ session'.phase = session.phase
      /\ session'.snapshot = session.snapshot /\ session'.pinned = session.pinned
      /\ session'.permitted = permitted /\ session'.armed = session.armed
      /\ session'.open = session.open /\ session'.good = session.good
      /\ session'.answer = session.answer
  BY <1>1 DEF Sessions
<1>5. /\ place' \in AcceptancePlaces
      /\ place'.root = place.root /\ place'.process = process /\ place'.deleted = place.deleted
  BY DEF AcceptancePlaces
<1>6. BodyUndisturbed' /\ PhasesInTurn' BY <1>2, <1>4, <1>5 DEF BodyUndisturbed, PhasesInTurn
<1>7. DebtKept' BY <1>1, <1>2, <1>3, <1>4, <1>5 DEF DebtKept, MayClean
<1>8. RootSettled' /\ RootAccounted'
  BY <1>2, <1>4, <1>5 DEF BodyUndisturbed, RootSettled, RootAccounted
<1> QED BY <1>1, <1>3, <1>4, <1>5, <1>6, <1>7, <1>8

LEMMA BodyUnverified ==
  ASSUME AcceptanceInv, session.at \in Body, NEW f \in BodyErrors \cup {NoError}, Unverified(f),
         NEW process \in {"none", "live", "quiet"}, place' = [place EXCEPT !.process = process]
  PROVE  AcceptanceInv'
<1>1. PICK kind \in {"ordinary", "control"} :
        Raises([f EXCEPT !.kind = kind, !.quiet = FALSE], FALSE)
  BY DEF Unverified
<1> DEFINE g == [f EXCEPT !.kind = kind, !.quiet = FALSE]
<1>2. g \in BodyErrors /\ ~g.quiet
  <2>1. f \in Faults /\ ~f.named BY ErrorsOfBody
  <2> QED BY <2>1 DEF BodyErrors, Faults
<1> HIDE DEF g
<1>3. Raises(g, FALSE) BY <1>1 DEF g
<1> QED BY <1>2, <1>3, BodyRaises

\* Nothing happens to the directories.
LEMMA PlaceStays ==
  ASSUME AcceptanceInv, UNCHANGED place
  PROVE  /\ place.process \in {"none", "live", "quiet"}
         /\ place' = [place EXCEPT !.process = place.process]
BY DEF AcceptancePlaces

LEMMA BodyEmptyOr ==
  ASSUME AcceptanceInv, session.at \in Body, NEW f \in Errors \cup {NoError}, EmptyOr(f)
  PROVE  AcceptanceInv'
<1>1. /\ place' = [place EXCEPT !.process = place.process]
      /\ place.process \in {"none", "quiet"}
  BY PlaceStays DEF EmptyOr, BodyUndisturbed
<1>2. f \in BodyErrors \cup {NoError} BY ErrorsOfBody
<1>3. CASE Unverified(f) BY <1>1, <1>2, <1>3, BodyUnverified
<1>4. CASE Raises([f EXCEPT !.kind = "ordinary", !.quiet = FALSE], session.permitted)
  <2> DEFINE g == [f EXCEPT !.kind = "ordinary", !.quiet = FALSE]
  <2>1. f \in Faults /\ ~f.named BY <1>2, ErrorsOfBody
  <2>2. g \in BodyErrors /\ session.permitted \in BOOLEAN
    BY <2>1 DEF BodyErrors, Faults, Sessions
  <2> HIDE DEF g
  <2>3. Raises(g, session.permitted) BY <1>4 DEF g
  <2> QED BY <1>1, <2>2, <2>3, BodyRaises
<1> QED BY <1>3, <1>4 DEF EmptyOr

\* An error of the body itself, where the processes have ended.
LEMMA BodyEndsEarly ==
  ASSUME AcceptanceInv, session.at \in Body, NEW f \in Errors, NEW permitted \in BOOLEAN,
         Raises(f, permitted), UNCHANGED place
  PROVE  AcceptanceInv'
<1>1. /\ place' = [place EXCEPT !.process = place.process]
      /\ place.process \in {"none", "quiet"}
  BY PlaceStays DEF BodyUndisturbed
<1> QED BY <1>1, ErrorsOfBody, BodyRaises

LEMMA RunKeepsAcceptance ==
  ASSUME AcceptanceInv, Ran
  PROVE  AcceptanceInv'
<1>1. session.at = "run" /\ session.at \in Body /\ fault = NoError
      /\ place.process \in {"none", "quiet"}
  BY DEF Ran, Body, AcceptancePlaces, BodyUndisturbed
<1>2. PICK e \in Endings :
        /\ place' = [place EXCEPT !.process = e.process]
        /\ IF Verified /\ e.fault = NoError
           THEN session' = [session EXCEPT !.at = "read"] /\ UNCHANGED fault
           ELSE (Verified /\ Raises(e.fault, e.permitted)) \/ Unverified(e.fault)
  BY DEF Ran
<1>3. /\ e.fault \in BodyErrors \cup {NoError} /\ e.permitted \in BOOLEAN
      /\ e.process \in {"none", "live", "quiet"}
      /\ e.fault = NoError => e.process = "quiet"
      /\ e.process = "live" => e.fault.debt \/ (~e.permitted /\ ~e.fault.quiet)
  <2>1. CASE e = [process |-> "quiet", fault |-> NoError, permitted |-> TRUE] BY <2>1
  <2>2. CASE e = [process |-> place.process, fault |-> Raised("ordinary", FALSE, TRUE),
                  permitted |-> TRUE]
    BY <1>1, <2>2 DEF Raised, BodyErrors, NoError
  <2>3. CASE e = [process |-> "quiet", fault |-> Raised("control", FALSE, TRUE),
                  permitted |-> FALSE]
    BY <2>3 DEF Raised, BodyErrors, NoError
  <2>4. CASE e \in [process : {"live", "quiet"}, permitted : {FALSE}, fault :
                     {Raised("boundary", TRUE, FALSE), Raised("control", TRUE, FALSE),
                      Raised("control", FALSE, FALSE)}]
    <3>1. \A kind \in {"boundary", "control"}, debt \in BOOLEAN :
            LET f == Raised(kind, debt, FALSE) IN f \in BodyErrors /\ ~f.quiet
      BY DEF Raised, BodyErrors
    <3>2. e.fault \in BodyErrors /\ ~e.fault.quiet BY <2>4, <3>1
    <3> QED BY <2>4, <3>2, ErrorsOfBody
  <2> QED BY <2>1, <2>2, <2>3, <2>4 DEF Endings
<1>4. CASE Verified /\ e.fault = NoError
  <2>1. /\ session' = [session EXCEPT !.at = "read"] /\ fault' = fault
        /\ place' = [place EXCEPT !.process = "quiet"]
    BY <1>2, <1>3, <1>4
  <2>2. /\ session' \in Sessions
        /\ session'.at = "read" /\ session'.phase = session.phase
        /\ session'.snapshot = session.snapshot /\ session'.pinned = session.pinned
        /\ session'.permitted = session.permitted /\ session'.armed = session.armed
        /\ session'.open = session.open /\ session'.good = session.good
        /\ session'.answer = session.answer
    BY <2>1 DEF Sessions, Body
  <2>3. /\ place' \in AcceptancePlaces
        /\ place'.root = place.root /\ place'.process = "quiet"
        /\ place'.deleted = place.deleted
    BY <2>1 DEF AcceptancePlaces
  <2>4. BodyUndisturbed' /\ PhasesInTurn'
    BY <1>1, <2>1, <2>2, <2>3 DEF BodyUndisturbed, PhasesInTurn, Body
  <2>5. DebtKept' /\ RootSettled' /\ RootAccounted'
    BY <1>1, <2>1, <2>2, <2>3 DEF BodyUndisturbed, DebtKept, RootSettled, RootAccounted
  <2> QED BY <2>1, <2>2, <2>3, <2>4, <2>5
<1>5. CASE Unverified(e.fault) BY <1>1, <1>2, <1>3, <1>5, BodyUnverified
<1>6. CASE Raises(e.fault, e.permitted) /\ e.fault # NoError
  BY <1>1, <1>2, <1>3, <1>6, BodyRaises
<1> QED BY <1>2, <1>4, <1>5, <1>6

LEMMA JudgeKeepsAcceptance ==
  ASSUME AcceptanceInv, Judged
  PROVE  AcceptanceInv'
<1>1. session.at = "judge" /\ session.at \in Body BY DEF Judged, Body
<1>2. CASE Returns("failed") BY <1>1, <1>2, BodyReturns
<1>3. CASE /\ session' = [session EXCEPT !.good = @ \cup {session.phase}, !.phase = "gut",
                            !.at = IF session.phase = "import" THEN "check" ELSE "finish"]
           /\ UNCHANGED <<fault, place>>
  <2>1. session.phase \in Phases /\ session.good \subseteq Phases BY DEF Sessions
  <2>2. /\ session' \in Sessions
        /\ session'.at \in {"check", "finish"} /\ session'.phase = "gut"
        /\ session'.permitted = session.permitted /\ session'.armed = session.armed
        /\ session'.open = session.open /\ session'.answer = session.answer
        /\ session'.good = session.good \cup {session.phase}
        /\ session'.at = "finish" => session.phase = "gut"
    BY <1>3, <2>1 DEF Sessions, Body, Phases
  <2>3. PhasesInTurn' BY <1>1, <2>1, <2>2 DEF PhasesInTurn, Phases, BodyUndisturbed
  <2>4. BodyUndisturbed' /\ DebtKept' /\ RootSettled' /\ RootAccounted'
    BY <1>1, <1>3, <2>2 DEF BodyUndisturbed, DebtKept, RootSettled, RootAccounted, Body
  <2> QED BY <1>3, <2>2, <2>3, <2>4
<1> QED BY <1>2, <1>3 DEF Judged

LEMMA BodyKeepsAcceptance ==
  ASSUME AcceptanceInv,
         \/ BodyInterrupted \/ FoundEmpty \/ EngineResolved \/ Populated \/ Checked \/ Finished
  PROVE  AcceptanceInv'
<1>1. /\ session.at \in Body /\ session.permitted \in BOOLEAN
      /\ place.process \in {"none", "quiet"}
      /\ UNCHANGED place => place' = [place EXCEPT !.process = place.process]
  <2>1. session.at \in Body
    BY DEF BodyInterrupted, FoundEmpty, EngineResolved, Populated, Checked, Finished, Body
  <2>2. session.permitted \in BOOLEAN /\ place.process \in {"none", "quiet"}
    BY <2>1 DEF Sessions, AcceptancePlaces, BodyUndisturbed
  <2> QED BY <2>1, <2>2, PlaceStays
<1>2. ASSUME NEW f \in Errors \cup {NoError}, Unverified(f), UNCHANGED place
      PROVE  AcceptanceInv'
  BY <1>1, <1>2, ErrorsOfBody, BodyUnverified
<1>3. CASE BodyInterrupted
  <2>1. Raised("control", FALSE, FALSE) \in Errors BY DEF Errors
  <2> QED BY <1>1, <1>3, <2>1, BodyEndsEarly DEF BodyInterrupted
<1>4. CASE FoundEmpty
  <2>1. CASE StepsTo("engine") BY <1>1, <2>1, BodyGoesOn DEF Body
  <2> QED BY <1>1, <1>4, <2>1, BodyEmptyOr DEF FoundEmpty
<1>5. CASE EngineResolved
  <2>1. CASE StepsTo("populate") BY <1>1, <2>1, BodyGoesOn DEF Body
  <2>2. CASE Returns("failed") BY <1>1, <2>2, BodyReturns
  <2> QED BY <1>1, <1>5, <2>1, <2>2, BodyEmptyOr, BodyEndsEarly DEF EngineResolved
<1>6. CASE Populated
  <2>1. CASE StepsTo(IF session.at = "read" THEN "judge" ELSE "check")
    BY <1>1, <2>1, BodyGoesOn DEF Body
  <2> QED BY <1>1, <1>2, <1>6, <2>1, BodyEndsEarly DEF Populated
<1>7. CASE Checked
  <2>1. CASE StepsTo("run") BY <1>1, <2>1, BodyGoesOn DEF Body
  <2> QED BY <1>2, <1>7, <2>1 DEF Checked
<1>8. CASE Finished
  <2>1. CASE Returns("ok") BY <1>1, <1>8, <2>1, BodyReturns DEF Finished
  <2> QED BY <1>2, <1>8, <2>1 DEF Finished
<1> QED BY <1>3, <1>4, <1>5, <1>6, <1>7, <1>8

\* What a retained error is, and the errors that are retained when handles stay open.
LEMMA RetainedErrors ==
  /\ \A f \in Faults : Retained(f) \in Faults /\ Retained(f).debt /\ Retained(f).named
                     /\ Retained(f).kind = f.kind
  /\ \A f \in Faults : (f.kind = "none" => f = NoError) =>
       /\ Owing(f) \in Faults /\ Owing(f).debt /\ Owing(f).named /\ Owing(f).kind # "none"
  /\ \A f \in Errors : f \in Faults /\ f # NoError /\ f.kind # "none" /\ ~f.debt /\ ~f.named
  /\ Raised("boundary", TRUE, FALSE) \in Faults
  /\ \A f \in Faults : f.kind # "none" => f # NoError
<1>1. \A f \in Faults : /\ Retained(f) \in Faults /\ Retained(f).debt /\ Retained(f).named
                       /\ Retained(f).kind = f.kind
  BY DEF Faults, Retained
<1>2. Raised("boundary", TRUE, FALSE) \in Faults /\ Raised("boundary", TRUE, FALSE).kind # "none"
  BY DEF Raised, Faults
<1>3. ASSUME NEW f \in Faults, f.kind = "none" => f = NoError
      PROVE  /\ Owing(f) \in Faults /\ Owing(f).debt /\ Owing(f).named
             /\ Owing(f).kind # "none"
  <2>1. CASE f = NoError BY <1>1, <1>2, <2>1 DEF Owing
  <2>2. CASE f # NoError BY <1>1, <1>3, <2>2 DEF Owing
  <2> QED BY <2>1, <2>2
<1>4. \A f \in BodyErrors : f.kind # "none" BY DEF BodyErrors
<1>5. NoError.kind = "none" BY DEF NoError, Raised
<1> QED BY <1>1, <1>2, <1>3, <1>4, <1>5, ErrorsOfBody

\* A root that is deleted is the call's own, or the finalizer deletes it.
LEMMA DeletedRoot ==
  ASSUME AcceptanceInv, place.root \in RootDirectories \cup {"removed"}, RootDeleted
  PROVE  /\ place' \in AcceptancePlaces /\ place'.root = "removed" /\ place'.process = place.process
         /\ place'.deleted = place.deleted \cup ({place.root} \ {"removed"})
BY DEF RootDeleted, AcceptancePlaces

LEMMA EnterKeepsAcceptance ==
  ASSUME AcceptanceInv, Entered \/ IdentityTaken
  PROVE  AcceptanceInv'
<1>1. /\ session.at \in {"start", "snapshot"} /\ place.process = "none" /\ place.deleted = {}
      /\ session.open = {} /\ session.pinned = "none" /\ fault = NoError
      /\ session.permitted /\ session.answer = "none"
      /\ session.at = "start" => place.root = "none" /\ ~session.armed
      /\ session.at = "snapshot" => place.root \in RootDirectories
  BY DEF Entered, IdentityTaken, BodyUndisturbed
<1>2. CASE /\ session.at = "start" /\ place' = [place EXCEPT !.root = "own"]
           /\ session' = [session EXCEPT !.at = "snapshot", !.armed = TRUE]
           /\ UNCHANGED fault
  <2>1. /\ session' \in Sessions /\ session'.at = "snapshot" /\ session'.armed
        /\ session'.phase = session.phase /\ session'.good = session.good
        /\ session'.snapshot = session.snapshot /\ session'.pinned = "none"
        /\ session'.open = {} /\ session'.permitted /\ session'.answer = "none"
    BY <1>1, <1>2 DEF Sessions
  <2>2. /\ place' \in AcceptancePlaces /\ place'.root = "own" /\ place'.process = "none"
        /\ place'.deleted = {}
    BY <1>1, <1>2 DEF AcceptancePlaces
  <2>3. BodyUndisturbed' /\ PhasesInTurn' /\ DebtKept' /\ RootSettled' /\ RootAccounted'
    BY <1>1, <1>2, <2>1, <2>2 DEF BodyUndisturbed, PhasesInTurn, DebtKept, RootSettled,
       RootAccounted
  <2> QED BY <1>2, <2>1, <2>2, <2>3
<1>3. CASE /\ session' = [session EXCEPT !.at = "settle"]
           /\ fault' \in Errors /\ UNCHANGED place
  <2>1. /\ session' \in Sessions /\ session'.at = "settle" /\ session'.armed = session.armed
        /\ session'.phase = session.phase /\ session'.good = session.good
        /\ session'.snapshot = session.snapshot /\ session'.pinned = "none"
        /\ session'.open = {} /\ session'.answer = "none"
    BY <1>1, <1>3 DEF Sessions
  <2>2. fault' \in Faults /\ fault'.kind # "none" /\ ~fault'.debt /\ ~fault'.named
        /\ fault' # NoError
    BY <1>3, RetainedErrors
  <2>3. session.at = "snapshot" => session.armed
    BY <1>1 DEF BodyUndisturbed
  <2>4. BodyUndisturbed' /\ PhasesInTurn' /\ DebtKept' /\ RootSettled' /\ RootAccounted'
    BY <1>1, <1>3, <2>1, <2>2, <2>3 DEF BodyUndisturbed, PhasesInTurn, DebtKept, RootSettled,
       RootAccounted, Body
  <2> QED BY <1>3, <2>1, <2>2, <2>4
<1>4. CASE /\ session.at = "snapshot"
           /\ session' = [session EXCEPT !.at = "detach", !.snapshot = place.root]
           /\ UNCHANGED <<fault, place>>
  <2>1. /\ session' \in Sessions /\ session'.at = "detach" /\ session'.armed = session.armed
        /\ session'.phase = session.phase /\ session'.good = session.good
        /\ session'.snapshot = place.root /\ session'.pinned = "none"
        /\ session'.open = {} /\ session'.permitted /\ session'.answer = "none"
    BY <1>1, <1>4 DEF Sessions
  <2>2. BodyUndisturbed' /\ PhasesInTurn' /\ DebtKept' /\ RootSettled' /\ RootAccounted'
    BY <1>1, <1>4, <2>1 DEF BodyUndisturbed, PhasesInTurn, DebtKept, RootSettled,
       RootAccounted
  <2> QED BY <1>4, <2>1, <2>2
<1> QED BY <1>2, <1>3, <1>4 DEF Entered, IdentityTaken

LEMMA DetachKeepsAcceptance ==
  ASSUME AcceptanceInv, Detached
  PROVE  AcceptanceInv'
<1>1. /\ session.at = "detach" /\ place.root \in RootDirectories /\ place.process = "none"
      /\ place.deleted = {} /\ session.open = {} /\ fault = NoError /\ session.permitted
      /\ session.answer = "none" /\ session.pinned = "none"
  BY DEF Detached, BodyUndisturbed
<1>2. CASE session' = [session EXCEPT !.at = "bind", !.armed = FALSE] /\ UNCHANGED <<fault, place>>
  <2>1. /\ session' \in Sessions /\ session'.at = "bind" /\ ~session'.armed
        /\ session'.phase = session.phase
        /\ session'.snapshot = session.snapshot /\ session'.pinned = session.pinned
        /\ session'.good = session.good
        /\ session'.open = {} /\ session'.permitted /\ session'.answer = "none"
    BY <1>1, <1>2 DEF Sessions, Body
  <2>2. BodyUndisturbed' /\ PhasesInTurn' /\ DebtKept' /\ RootSettled' /\ RootAccounted'
    BY <1>1, <1>2, <2>1 DEF BodyUndisturbed, PhasesInTurn, DebtKept, RootSettled,
       RootAccounted
  <2> QED BY <1>2, <2>1, <2>2
<1>3. CASE /\ RootIsOwn /\ RootDeleted
           /\ session' = [session EXCEPT !.at = "settle", !.armed = FALSE]
           /\ fault' \in Errors
  <2>1. /\ session' \in Sessions /\ session'.at = "settle" /\ ~session'.armed
        /\ session'.phase = session.phase
        /\ session'.snapshot = session.snapshot /\ session'.pinned = session.pinned
        /\ session'.good = session.good
        /\ session'.open = {} /\ session'.answer = "none"
    BY <1>1, <1>3 DEF Sessions
  <2>2. /\ place' \in AcceptancePlaces /\ place'.root = "removed" /\ place'.process = "none"
        /\ place'.deleted = {session.snapshot} /\ session.snapshot \in RootDirectories
    BY <1>1, <1>3, DeletedRoot DEF RootIsOwn
  <2>3. fault' \in Faults /\ fault'.kind # "none" /\ ~fault'.debt /\ ~fault'.named
        /\ fault' # NoError
    BY <1>3, RetainedErrors
  <2>4. BodyUndisturbed' /\ PhasesInTurn' /\ DebtKept' /\ RootSettled' /\ RootAccounted'
    BY <1>1, <2>1, <2>2, <2>3 DEF BodyUndisturbed, PhasesInTurn, DebtKept, RootSettled,
       RootAccounted, Body
  <2> QED BY <2>1, <2>2, <2>3, <2>4
<1>4. ASSUME NEW f \in Errors, NEW armed \in BOOLEAN,
             session' = [session EXCEPT !.at = "settle", !.armed = armed],
             fault' = Retained(f), UNCHANGED place
      PROVE  AcceptanceInv'
  <2>1. /\ session' \in Sessions /\ session'.at = "settle" /\ session'.armed = armed
        /\ session'.phase = session.phase
        /\ session'.snapshot = session.snapshot /\ session'.pinned = session.pinned
        /\ session'.good = session.good
        /\ session'.open = {} /\ session'.answer = "none"
    BY <1>1, <1>4 DEF Sessions
  <2>2. fault' \in Faults /\ fault'.kind # "none" /\ fault'.debt /\ fault'.named
        /\ fault' # NoError
    BY <1>4, RetainedErrors
  <2>3. BodyUndisturbed' /\ PhasesInTurn' /\ DebtKept' /\ RootSettled' /\ RootAccounted'
    BY <1>1, <1>4, <2>1, <2>2 DEF BodyUndisturbed, PhasesInTurn, DebtKept, RootSettled,
       RootAccounted, Body
  <2> QED BY <1>4, <2>1, <2>2, <2>3
<1> QED BY <1>2, <1>3, <1>4 DEF Detached

LEMMA BindKeepsAcceptance ==
  ASSUME AcceptanceInv, Bound
  PROVE  AcceptanceInv'
<1>1. /\ session.at = "bind" /\ place.root \in RootDirectories /\ place.process # "live"
      /\ fault = NoError /\ session.permitted /\ session.answer = "none" /\ ~session.armed
      /\ session.open = {} /\ session.pinned = "none" /\ place' = place
  BY DEF Bound, BodyUndisturbed, Body
<1>2. CASE /\ session' = [session EXCEPT !.at = "directories", !.open = Handles,
                                          !.pinned = place.root]
           /\ UNCHANGED fault
  <2>1. /\ session' \in Sessions /\ session'.at = "directories" /\ ~session'.armed
        /\ session'.phase = session.phase
        /\ session'.snapshot = session.snapshot /\ session'.pinned = place.root
        /\ session'.good = session.good
        /\ session'.permitted /\ session'.answer = "none"
    BY <1>1, <1>2 DEF Sessions, Body
  <2>2. BodyUndisturbed' /\ PhasesInTurn' /\ DebtKept' /\ RootSettled' /\ RootAccounted'
    BY <1>1, <1>2, <2>1 DEF BodyUndisturbed, PhasesInTurn, DebtKept, RootSettled,
       RootAccounted
  <2> QED BY <1>1, <1>2, <2>1, <2>2
<1>3. CASE /\ session' = [session EXCEPT !.at = "close", !.open = Handles,
                                          !.pinned = place.root, !.permitted = FALSE]
           /\ fault' \in Errors
  <2>1. /\ session' \in Sessions /\ session'.at = "close" /\ ~session'.armed
        /\ session'.phase = session.phase
        /\ session'.snapshot = session.snapshot /\ session'.pinned = place.root
        /\ session'.good = session.good
        /\ session'.answer = "none"
    BY <1>1, <1>3 DEF Sessions
  <2>2. fault' \in Faults /\ fault'.kind # "none" /\ ~fault'.debt /\ ~fault'.named
        /\ fault' # NoError
    BY <1>3, RetainedErrors
  <2>3. BodyUndisturbed' /\ PhasesInTurn' /\ DebtKept' /\ RootSettled' /\ RootAccounted'
    BY <1>1, <2>1, <2>2 DEF BodyUndisturbed, PhasesInTurn, DebtKept, RootSettled,
       RootAccounted, Body
  <2> QED BY <1>1, <2>1, <2>2, <2>3
<1>4. ASSUME NEW f \in Errors, NEW left \in SUBSET Handles,
             session' = [session EXCEPT !.at = "leave", !.open = left],
             IF left = {} THEN fault' = f
             ELSE fault' = Owing(f) \/ (f.kind = "control" /\ fault' = f)
      PROVE  AcceptanceInv'
  <2>1. /\ session' \in Sessions /\ session'.at = "leave" /\ ~session'.armed
        /\ session'.phase = session.phase
        /\ session'.snapshot = session.snapshot /\ session'.pinned = session.pinned
        /\ session'.good = session.good
        /\ session'.answer = "none" /\ session'.open = left
    BY <1>1, <1>4 DEF Sessions
  <2>2. /\ fault' \in Faults /\ fault'.kind # "none" /\ fault' # NoError
        /\ fault'.named => fault'.debt
        /\ ~fault'.debt => left = {} \/ fault'.kind = "control"
    BY <1>4, RetainedErrors
  <2>3. BodyUndisturbed' /\ PhasesInTurn' /\ DebtKept' /\ RootSettled' /\ RootAccounted'
    BY <1>1, <2>1, <2>2 DEF BodyUndisturbed, PhasesInTurn, DebtKept, RootSettled,
       RootAccounted, Body
  <2> QED BY <1>1, <2>1, <2>2, <2>3
<1> QED BY <1>2, <1>3, <1>4 DEF Bound

LEMMA DirectoryKeepsAcceptance ==
  ASSUME AcceptanceInv, DirectoryMade
  PROVE  AcceptanceInv'
<1>1. session.at \in {"directories", "project"} /\ session.at \in Body
  BY DEF DirectoryMade, Body
<1>2. CASE (\E f \in Errors : Raises(f, FALSE)) /\ UNCHANGED place BY <1>1, <1>2, BodyEndsEarly
<1>3. CASE /\ RootIsPinned
           /\ session' = [session EXCEPT !.at = IF @ = "project" THEN "empty" ELSE "project"]
           /\ place' = IF session.at = "project" THEN [place EXCEPT !.project = "own"] ELSE place
           /\ UNCHANGED fault
  <2>1. /\ session' \in Sessions /\ session'.at \in {"empty", "project"}
        /\ session'.phase = session.phase
        /\ session'.snapshot = session.snapshot /\ session'.pinned = session.pinned
        /\ session'.good = session.good
        /\ session'.permitted = session.permitted /\ session'.armed = session.armed
        /\ session'.open = session.open /\ session'.answer = session.answer
    BY <1>1, <1>3 DEF Sessions, Body
  <2>2. /\ place' \in AcceptancePlaces /\ place'.root = place.root /\ place'.process = place.process
        /\ place'.deleted = place.deleted
    BY <1>3 DEF AcceptancePlaces
  <2>3. PhasesInTurn' BY <1>1, <2>1 DEF PhasesInTurn, BodyUndisturbed
  <2>4. BodyUndisturbed' /\ DebtKept' /\ RootSettled' /\ RootAccounted'
    BY <1>1, <1>3, <2>1, <2>2 DEF BodyUndisturbed, DebtKept, RootSettled, RootAccounted,
       Body
  <2> QED BY <1>3, <2>1, <2>2, <2>3, <2>4
<1> QED BY <1>2, <1>3 DEF DirectoryMade

LEMMA CloseKeepsAcceptance ==
  ASSUME AcceptanceInv, BindingCloses
  PROVE  AcceptanceInv'
<1>1. /\ session.at = "close" /\ place.root \in RootDirectories /\ ~session.armed
      /\ place' = place
  BY DEF BindingCloses, BodyUndisturbed, Body
<1>2. PICK left \in SUBSET session.open :
        /\ session' = [session EXCEPT !.at = "leave", !.open = left]
        /\ fault' = IF left = {} THEN fault ELSE Owing(fault)
  BY DEF BindingCloses
<1>3. /\ session' \in Sessions /\ session'.at = "leave" /\ ~session'.armed
      /\ session'.phase = session.phase
      /\ session'.snapshot = session.snapshot /\ session'.pinned = session.pinned
      /\ session'.good = session.good
      /\ session'.answer = session.answer /\ session'.open = left
      /\ session'.permitted = session.permitted
  BY <1>1, <1>2 DEF Sessions
<1>4. fault \in Faults /\ (fault.kind = "none" => fault = NoError) BY DEF DebtKept
<1>5. left # {} =>
        fault' \in Faults /\ fault'.debt /\ fault'.named /\ fault'.kind # "none" /\ fault' # NoError
  BY <1>2, <1>4, RetainedErrors
<1>6. fault' \in Faults /\ DebtKept' BY <1>1, <1>2, <1>3, <1>4, <1>5 DEF DebtKept, MayClean
<1>7. BodyUndisturbed' /\ PhasesInTurn' /\ RootSettled' /\ RootAccounted'
  BY <1>1, <1>3 DEF BodyUndisturbed, PhasesInTurn, RootSettled, RootAccounted, Body
<1> QED BY <1>1, <1>3, <1>6, <1>7

LEMMA LeaveKeepsAcceptance ==
  ASSUME AcceptanceInv, RootLeft
  PROVE  AcceptanceInv'
<1>1. /\ session.at = "leave" /\ place.root \in RootDirectories /\ ~session.armed
      /\ session' = [session EXCEPT !.at = "settle"]
  BY DEF RootLeft, BodyUndisturbed, Body
<1>2. /\ session' \in Sessions /\ session'.at = "settle" /\ ~session'.armed
      /\ session'.phase = session.phase
      /\ session'.snapshot = session.snapshot /\ session'.pinned = session.pinned
      /\ session'.good = session.good
      /\ session'.answer = session.answer /\ session'.open = session.open
      /\ session'.permitted = session.permitted
  BY <1>1 DEF Sessions
<1>3. fault \in Faults /\ (fault.kind = "none" => fault = NoError) /\ NoError.kind = "none"
  BY DEF DebtKept, NoError, Raised
<1>4. CASE MayClean /\ RootIsOwn /\ RootDeleted /\ UNCHANGED fault
  <2>1. /\ place' \in AcceptancePlaces /\ place'.root = "removed" /\ place'.process = place.process
        /\ place'.deleted = place.deleted \cup {session.snapshot}
    BY <1>1, <1>4, DeletedRoot DEF RootIsOwn
  <2>2. ~fault.named /\ place.process # "live"
    BY <1>1, <1>3, <1>4 DEF MayClean, DebtKept, NoError, Raised
  <2>3. BodyUndisturbed' /\ PhasesInTurn' /\ DebtKept'
    BY <1>1, <1>2, <1>4 DEF BodyUndisturbed, PhasesInTurn, DebtKept, Body
  <2>4. RootSettled' /\ RootAccounted'
    BY <1>1, <1>2, <1>4, <2>1, <2>2 DEF RootSettled, RootAccounted
  <2> QED BY <1>2, <1>3, <1>4, <2>1, <2>3, <2>4
<1>5. CASE /\ fault' \in IF fault # NoError THEN {Retained(fault)}
                         ELSE IF ~MayClean THEN {NoError}
                         ELSE {Retained(f) : f \in Errors \cup {Raised("boundary", TRUE, FALSE)}}
           /\ UNCHANGED place
  <2>1. fault = NoError => MayClean BY DEF MayClean, DebtKept
  <2>2. PICK f \in Faults : f.kind # "none" /\ fault' = Retained(f)
    <3>1. CASE fault # NoError BY <1>3, <1>5, <3>1
    <3>2. CASE fault = NoError
      <4>1. PICK f \in Errors \cup {Raised("boundary", TRUE, FALSE)} : fault' = Retained(f)
        BY <1>5, <2>1, <3>2
      <4>2. Raised("boundary", TRUE, FALSE).kind # "none" BY DEF Raised
      <4> QED BY <4>1, <4>2, RetainedErrors
    <3> QED BY <3>1, <3>2
  <2>3. /\ fault' \in Faults /\ fault'.debt /\ fault'.named /\ fault'.kind # "none"
        /\ fault' # NoError
    BY <2>2, RetainedErrors
  <2>4. BodyUndisturbed' /\ PhasesInTurn' /\ DebtKept' /\ RootSettled' /\ RootAccounted'
    BY <1>1, <1>2, <1>5, <2>3 DEF BodyUndisturbed, PhasesInTurn, DebtKept, RootSettled,
       RootAccounted, Body
  <2> QED BY <1>2, <1>5, <2>3, <2>4
<1> QED BY <1>4, <1>5 DEF RootLeft

LEMMA SettleKeepsAcceptance ==
  ASSUME AcceptanceInv, CallSettled
  PROVE  AcceptanceInv'
<1>1. session.at = "settle" /\ fault' = fault BY DEF CallSettled
<1> DEFINE answer == IF fault = NoError THEN session.answer
                     ELSE IF fault.kind = "ordinary" /\ ~fault.debt THEN "failed" ELSE "raised"
<1>2. session' = [session EXCEPT !.at = "ended", !.answer = answer] BY DEF CallSettled
<1>3. /\ answer \in {"ok", "failed", "raised"}
      /\ answer = "ok" => session.answer = "ok"
      /\ answer \in {"ok", "failed"} => ~fault.debt /\ fault.kind # "control"
  BY <1>1 DEF DebtKept, NoError, Raised
<1> HIDE DEF answer
<1>4. /\ session' \in Sessions /\ session'.at = "ended" /\ session'.armed = session.armed
      /\ session'.phase = session.phase
      /\ session'.snapshot = session.snapshot /\ session'.pinned = session.pinned
      /\ session'.good = session.good
      /\ session'.answer = answer /\ session'.open = session.open
      /\ session'.permitted = session.permitted
  BY <1>2, <1>3 DEF Sessions
<1>5. CASE session.armed
  <2>1. /\ place.process = "none" /\ place.root \in RootDirectories \cup {"removed"}
        /\ session.pinned = "none"
    BY <1>5 DEF AcceptancePlaces, BodyUndisturbed
  <2>2. /\ place' \in AcceptancePlaces /\ place'.root = "removed" /\ place'.process = place.process
        /\ place'.deleted = place.deleted \cup ({place.root} \ {"removed"})
    BY <1>5, <2>1, DeletedRoot DEF CallSettled
  <2>3. BodyUndisturbed' /\ PhasesInTurn' /\ DebtKept'
    BY <1>1, <1>3, <1>4, <2>1, <2>2 DEF BodyUndisturbed, PhasesInTurn, DebtKept, Body
  <2>4. RootSettled' /\ RootAccounted'
    BY <1>1, <1>3, <1>4, <1>5, <2>1, <2>2 DEF DebtKept, PhasesInTurn, RootSettled,
       RootAccounted
  <2> QED BY <1>1, <1>4, <2>2, <2>3, <2>4
<1>6. CASE ~session.armed
  <2>1. place' = place BY <1>6 DEF CallSettled
  <2>2. BodyUndisturbed' /\ PhasesInTurn' /\ DebtKept'
    BY <1>1, <1>3, <1>4, <1>6, <2>1 DEF BodyUndisturbed, PhasesInTurn, DebtKept, Body
  <2>3. RootSettled' /\ RootAccounted'
    BY <1>1, <1>3, <1>4, <1>6, <2>1 DEF DebtKept, PhasesInTurn, RootSettled, RootAccounted
  <2> QED BY <1>1, <1>4, <2>1, <2>2, <2>3
<1> QED BY <1>5, <1>6

\* Somebody else, and Godot, while the call runs.
LEMMA TroubleKeepsAcceptance ==
  ASSUME AcceptanceInv, session.at # "ended", Trouble \/ ProcessEnds
  PROVE  AcceptanceInv'
<1>1. /\ session' = session /\ fault' = fault
      /\ place' \in AcceptancePlaces /\ place'.deleted = place.deleted
      /\ \/ place'.root = place.root
         \/ place.root \in RootDirectories /\ place'.root \in RootDirectories
      /\ \/ place'.process = place.process
         \/ place.process = "live" /\ place'.process = "quiet"
  <2>1. CASE Trouble
    <3>1. place.troubles + 1 \in 0 .. MaxTroubles
      BY <2>1, AcceptanceAssumption DEF Trouble, AcceptancePlaces
    <3> QED BY <2>1, <3>1 DEF Trouble, Swapped, AcceptancePlaces
  <2>2. CASE ProcessEnds BY <2>2 DEF ProcessEnds, AcceptancePlaces
  <2> QED BY <2>1, <2>2
<1>2. BodyUndisturbed' /\ PhasesInTurn' /\ DebtKept'
  BY <1>1 DEF BodyUndisturbed, PhasesInTurn, DebtKept, MayClean
<1>3. RootSettled' /\ RootAccounted' BY <1>1 DEF RootSettled, RootAccounted
<1> QED BY <1>1, <1>2, <1>3

\* Whatever fails or is interrupted, and whoever exchanges the root or the project: no root
\* is deleted under a process, and no directory but the one whose identity was taken for
\* the root's, unless the finalizer does it; what a call that returns bound is gone, if that
\* was the same one; and what stays at the path is named.
THEOREM RootIsAccounted == AcceptanceSpec => []RootAccounted
<1>1. ASSUME AcceptanceInv, [AcceptanceNext]_acceptanceVars PROVE AcceptanceInv'
  <2>1. CASE UNCHANGED acceptanceVars
    BY <1>1, <2>1 DEF acceptanceVars, BodyUndisturbed, PhasesInTurn, DebtKept, MayClean,
       RootSettled, RootAccounted
  <2>2. CASE AcceptanceStep
    BY <1>1, <2>2, EnterKeepsAcceptance, DetachKeepsAcceptance, BodyKeepsAcceptance,
       BindKeepsAcceptance, DirectoryKeepsAcceptance, RunKeepsAcceptance, JudgeKeepsAcceptance,
       CloseKeepsAcceptance, LeaveKeepsAcceptance, SettleKeepsAcceptance DEF AcceptanceStep
  <2> QED BY <1>1, <2>1, <2>2, TroubleKeepsAcceptance DEF AcceptanceNext
<1>2. AcceptanceInv => RootAccounted OBVIOUS
<1> QED BY <1>1, <1>2, InitAcceptanceInv, PTL DEF AcceptanceSpec

-----------------------------------------------------------------------------
\* ShardWorker.  The fields of the records.
WorkerJobs ==
  [step : JobSteps, bound : BOOLEAN, rooted : BOOLEAN, logged : BOOLEAN,
   private : {"none", "path", "owned"}, lifecycle : BOOLEAN, evidence : -1 .. 2]

Papers ==
  [ok : BOOLEAN, import : {NotRun} \cup PhaseResults, gut : {NotRun} \cup PhaseResults,
   junit : BOOLEAN, lifecycle : BOOLEAN, quiescent : BOOLEAN, cleaned : BOOLEAN,
   permitted : BOOLEAN, safe : BOOLEAN, issues : SUBSET IssueKinds]

Sites ==
  [workspace : {"own", "replaced"}, managed : {"own", "replaced"},
   private : {"absent", "own", "foreign", "removed"}, process : {"none", "live", "quiet"},
   pair : 0 .. 2, cancelled : BOOLEAN, late : BOOLEAN]

WorkerFields == job \in WorkerJobs /\ paper \in Papers /\ site \in Sites

BeforeLogs == {"begin", "bind", "assign", "environment"}
Importing == {"import", "importing", "imported"}
Testing == {"gut", "testing", "tested", "junit", "judge"}
Running == BeforeLogs \cup {"logs"} \cup Importing \cup Testing

\* How far the worker is says what it has, and what its report has so far.
Journey ==
  job.step \in Running =>
    /\ paper.issues = {} /\ ~paper.junit /\ ~paper.ok
    /\ job.private = IF job.step \in BeforeLogs THEN "none" ELSE "owned"
    /\ job.step \notin {"begin", "bind"} => job.bound
    /\ job.step = "judge" =>
         IF job.evidence = -1 THEN GutFailed ELSE job.evidence = site.pair /\ site.pair > 0
    /\ job.step # "judge" => job.evidence = -1
    /\ job.step \in BeforeLogs \cup {"logs"} =>
         paper.import = NotRun /\ paper.gut = NotRun /\ paper.quiescent
    /\ job.step \in Importing => paper.import.ran /\ paper.gut = NotRun
    /\ job.step \in Testing => paper.import.ok /\ paper.gut.ran
    /\ job.step \in {"import", "importing", "gut", "testing"} => ~paper.quiescent
    /\ job.step \in {"junit", "judge"} => paper.quiescent

\* What the report says of processes, directories and evidence.
ShardReported ==
  /\ paper.quiescent => site.process # "live"
  /\ paper.gut.ran => paper.import.ok
  /\ paper.junit => paper.gut.ran /\ paper.quiescent /\ job.evidence = site.pair /\ site.pair > 0
  /\ job.private = "none" => paper.quiescent /\ site.private \in {"absent", "foreign"}
  /\ job.private = "path" => paper.quiescent /\ job.step \notin Running
  /\ site.private = "removed" => paper.quiescent
  /\ job.step \in Running \cup {"cleanup"} =>
       /\ (paper.cleaned <=> job.private = "none")
       /\ site.private # "removed" /\ "cleanup" \notin paper.issues
  /\ job.step \in {"finish", "ended"} =>
       /\ (paper.cleaned <=> "cleanup" \notin paper.issues)
       /\ paper.cleaned => paper.quiescent /\ site.private # "own"

\* What is known before the last look at the workspace.
Judgeable ==
  /\ job.step # "ended" /\ job.bound => "replaced" \notin paper.issues
  /\ job.step \in {"cleanup", "finish"} =>
       /\ (paper.ok <=> paper.issues = {})
       /\ paper.ok => ~GutFailed /\ paper.junit /\ job.bound

WorkerInv == WorkerFields /\ Journey /\ ShardReported /\ Judgeable /\ WorkerReportEarned

LEMMA PhaseFacts ==
  /\ \A p \in {NotRun} \cup PhaseResults :
       /\ p.ran \in BOOLEAN /\ p.ok \in BOOLEAN /\ p.stopped \in BOOLEAN
       /\ p.ok => p.ran /\ ~p.stopped
  /\ ~NotRun.ran /\ ~NotRun.ok
  /\ \A p \in PhaseResults : p.ran
  /\ FailedAttempt \in PhaseResults /\ ~FailedAttempt.ok
  /\ \A s \in BOOLEAN : Phase(TRUE, FALSE, s) \in PhaseResults /\ ~Phase(TRUE, FALSE, s).ok
<1>1. \A p \in PhaseResults : p = Phase(TRUE, TRUE, FALSE)
                          \/ \E s \in BOOLEAN : p = Phase(TRUE, FALSE, s)
  BY DEF PhaseResults
<1>2. ASSUME NEW p \in PhaseResults
      PROVE  /\ p.ran = TRUE /\ p.ok \in BOOLEAN /\ p.stopped \in BOOLEAN
             /\ p.ok => ~p.stopped
  <2>1. CASE p = Phase(TRUE, TRUE, FALSE) BY <2>1 DEF Phase
  <2>2. CASE \E s \in BOOLEAN : p = Phase(TRUE, FALSE, s) BY <2>2 DEF Phase
  <2> QED BY <1>1, <2>1, <2>2
<1>3. ~NotRun.ran /\ ~NotRun.ok /\ NotRun.ran \in BOOLEAN /\ NotRun.ok \in BOOLEAN
      /\ NotRun.stopped \in BOOLEAN
  BY DEF NotRun, Phase
<1>4. \A s \in BOOLEAN : Phase(TRUE, FALSE, s) \in PhaseResults /\ ~Phase(TRUE, FALSE, s).ok
  BY DEF PhaseResults, Phase
<1>5. FailedAttempt \in PhaseResults /\ ~FailedAttempt.ok BY <1>4 DEF FailedAttempt
<1>6. ASSUME NEW p \in {NotRun} \cup PhaseResults
      PROVE  /\ p.ran \in BOOLEAN /\ p.ok \in BOOLEAN /\ p.stopped \in BOOLEAN
             /\ p.ok => p.ran /\ ~p.stopped
  <2>1. CASE p = NotRun BY <2>1, <1>3
  <2>2. CASE p \in PhaseResults
    <3>1. /\ p.ran = TRUE /\ p.ok \in BOOLEAN /\ p.stopped \in BOOLEAN
          /\ p.ok => ~p.stopped
      BY <2>2, <1>2
    <3> QED BY <3>1
  <2> QED BY <2>1, <2>2
<1>7. \A p \in PhaseResults : p.ran BY <1>2
<1> QED BY <1>3, <1>4, <1>5, <1>6, <1>7

LEMMA InitWorkerInv == WorkerInit => WorkerInv
<1> SUFFICES ASSUME WorkerInit PROVE WorkerInv OBVIOUS
<1>1. WorkerFields BY DEF WorkerInit, WorkerFields, WorkerJobs, Papers, Sites, JobSteps
<1>4. /\ job.step = "begin" /\ job.private = "none" /\ ~job.bound /\ job.evidence = -1
      /\ paper.issues = {} /\ ~paper.junit /\ ~paper.ok /\ paper.quiescent /\ paper.cleaned
      /\ paper.import = NotRun /\ paper.gut = NotRun /\ ~paper.gut.ran
      /\ site.process = "none" /\ site.private \in {"absent", "foreign"}
  BY PhaseFacts DEF WorkerInit
<1>5. job.step \in BeforeLogs /\ job.step \notin Importing /\ job.step \notin Testing
  BY <1>4 DEF BeforeLogs, Importing, Testing
<1>6. Journey BY <1>4, <1>5 DEF Journey
<1>7. ShardReported BY <1>4, <1>5 DEF ShardReported, Running
<1>8. Judgeable BY <1>4 DEF Judgeable
<1>2. Journey /\ ShardReported /\ Judgeable BY <1>6, <1>7, <1>8
<1>3. WorkerReportEarned
  BY DEF WorkerInit, WorkerReportEarned, WorkerReportFits, WorkerClaimsHold
<1> QED BY <1>1, <1>2, <1>3 DEF WorkerInv

USE DEF WorkerInv, WorkerFields

LEMMA Unanswered ==
  ASSUME ShardReported', job'.step # "ended"
  PROVE  WorkerReportEarned'
BY DEF ShardReported, WorkerReportEarned, WorkerReportFits, WorkerClaimsHold

LEMMA StepsOfWorker ==
  /\ Running \cap {"cleanup", "finish", "ended"} = {}
  /\ "cleanup" \notin Running /\ "finish" \notin Running /\ "ended" \notin Running
BY DEF Running, BeforeLogs, Importing, Testing

\* A step of the body ends it with an issue of its own.
LEMMA WorkerLeaves ==
  ASSUME WorkerInv, job.step \in Running, NEW kind \in IssueKinds \ {"cleanup"}, Raise(kind),
         site' = site \/ site' = [site EXCEPT !.process = "quiet"]
  PROVE  WorkerInv'
<1>1. /\ paper.issues = {} /\ ~paper.junit /\ ~paper.ok /\ job.step # "ended"
      /\ job.private # "path" /\ (paper.cleaned <=> job.private = "none")
      /\ site.private # "removed" /\ "replaced" \notin paper.issues
      /\ job.private = "none" => paper.quiescent /\ site.private \in {"absent", "foreign"}
      /\ paper.gut.ran => paper.import.ok
  BY StepsOfWorker DEF Journey, ShardReported, Judgeable
<1>2. /\ job' \in WorkerJobs
      /\ job'.step = "cleanup"
      /\ job'.bound => kind # "replaced"
      /\ job'.private = job.private /\ job'.evidence = job.evidence
  BY DEF Raise, To, WorkerJobs, JobSteps
<1>3. /\ paper' \in Papers
      /\ paper'.issues = {kind} /\ paper'.ok = paper.ok /\ paper'.junit = paper.junit
      /\ paper'.import = paper.import /\ paper'.gut = paper.gut
      /\ paper'.quiescent = paper.quiescent /\ paper'.cleaned = paper.cleaned
  BY <1>1 DEF Raise, Papers
<1>4. /\ site' \in Sites /\ site'.private = site.private
      /\ site'.process = "live" => site.process = "live"
  BY DEF Sites
<1>5. job'.step = "cleanup" /\ job'.step \notin Running /\ kind # "cleanup"
  <2>1. job'.step = "cleanup" BY <1>2
  <2>2. "cleanup" \notin Running BY StepsOfWorker
  <2>3. kind # "cleanup" OBVIOUS
  <2> QED BY <2>1, <2>2, <2>3
<1>6. Journey' BY <1>5 DEF Journey
<1>7. Judgeable' BY <1>1, <1>2, <1>3, <1>5 DEF Judgeable
<1>8. paper.quiescent => site.process # "live" BY DEF ShardReported
<1>9. ShardReported' BY <1>1, <1>2, <1>3, <1>4, <1>5, <1>8 DEF ShardReported
<1> QED BY <1>2, <1>3, <1>4, <1>5, <1>6, <1>7, <1>9, Unanswered

LEMMA IssuesOfWorker ==
  /\ {"cancelled", "deadline", "replaced", "unexpected", "other"} \subseteq IssueKinds \ {"cleanup"}
  /\ {"import_failed", "gut_failed", "junit_rejected"} \subseteq IssueKinds \ {"cleanup"}
BY DEF IssueKinds, Closed

\* The ways in which most steps end early.
LEMMA WorkerStops ==
  ASSUME WorkerInv, job.step \in Running, site' = site,
         \/ StopRequested \/ NoBudget \/ Unforeseen \/ Raise("replaced") \/ Raise("cancelled")
         \/ Raise("import_failed") \/ Raise("gut_failed") \/ Raise("junit_rejected")
         \/ Raise("unexpected")
  PROVE  WorkerInv'
<1>1. PICK kind \in IssueKinds \ {"cleanup"} : Raise(kind)
  BY IssuesOfWorker DEF StopRequested, NoBudget, Unforeseen
<1> QED BY <1>1, WorkerLeaves

\* A step of the body that goes on, and what it must establish.
LEMMA WorkerGoesOn ==
  ASSUME WorkerInv, WorkerFields', Journey', ShardReported', Judgeable', job'.step # "ended"
  PROVE  WorkerInv'
BY Unanswered

LEMMA PreparationKeepsWorker ==
  ASSUME WorkerInv, WorkerBegins \/ WorkspaceIsBound \/ ShardIsBound
  PROVE  WorkerInv'
<1>1. job.step \in {"begin", "bind", "assign"} /\ job.step \in Running /\ site' = site
  BY DEF WorkerBegins, WorkspaceIsBound, ShardIsBound, Running, BeforeLogs
<1>2. CASE \/ StopRequested \/ Unforeseen \/ Raise("replaced") \/ Raise("cancelled")
  BY <1>1, <1>2, WorkerStops
<1>3. CASE /\ paper' = paper
           /\ \/ job.step = "begin" /\ job' = To("bind")
              \/ job.step = "bind" /\ job' = [To("assign") EXCEPT !.bound = TRUE]
              \/ /\ job.step = "assign"
                 /\ job' = [To("environment") EXCEPT !.rooted = TRUE]
  <2>1. /\ job.step = "assign" => job.bound
        /\ job.step \in BeforeLogs /\ job.step # "judge"
        /\ job.private = "none" /\ job.evidence = -1
        /\ paper.issues = {} /\ ~paper.junit /\ ~paper.ok /\ paper.quiescent
        /\ paper.import = NotRun /\ paper.gut = NotRun
    BY <1>1 DEF Journey, BeforeLogs
  <2>2. /\ job' \in WorkerJobs /\ job'.step \in {"bind", "assign", "environment"}
        /\ job'.private = job.private /\ job'.evidence = job.evidence
    BY <1>1, <1>3 DEF To, WorkerJobs, JobSteps
  <2>3. job'.step # "bind" => job'.bound BY <1>3, <2>1 DEF To, WorkerJobs
  <2>4. /\ job'.step \in BeforeLogs /\ job'.step \in Running /\ job'.step \notin Importing
        /\ job'.step \notin Testing
    BY <2>2 DEF BeforeLogs, Importing, Testing, Running
  <2>5. Journey' BY <1>3, <2>1, <2>2, <2>3, <2>4 DEF Journey
  <2>6. Judgeable' BY <1>3, <2>1, <2>2 DEF Judgeable
  <2>7. ShardReported' BY <1>1, <1>3, <2>1, <2>2, <2>4 DEF ShardReported
  <2>8. WorkerFields' /\ job'.step # "ended" BY <1>1, <1>3, <2>2
  <2> QED BY <2>5, <2>6, <2>7, <2>8, WorkerGoesOn
<1> QED BY <1>2, <1>3 DEF WorkerBegins, WorkspaceIsBound, ShardIsBound

LEMMA PrivateIsMadeKeepsWorker ==
  ASSUME WorkerInv, PrivateIsMade
  PROVE  WorkerInv'
<1>1. /\ job.step = "environment" /\ job.step \in BeforeLogs /\ job.step \in Running
      /\ job.step # "judge"
  BY DEF PrivateIsMade, BeforeLogs, Running
<1>2. /\ job.bound /\ job.evidence = -1 /\ "cleanup" \notin paper.issues
      /\ paper.issues = {} /\ ~paper.junit /\ ~paper.ok /\ paper.quiescent
      /\ paper.import = NotRun /\ paper.gut = NotRun
      /\ site.process # "live" /\ ~paper.gut.ran
  BY <1>1, PhaseFacts DEF Journey, ShardReported
<1>3. /\ job' \in WorkerJobs /\ job'.step = "logs" /\ job'.private = "owned"
      /\ job'.bound = job.bound /\ job'.evidence = job.evidence
  BY DEF PrivateIsMade, To, WorkerJobs, JobSteps
<1>4. /\ paper' \in Papers /\ ~paper'.cleaned /\ paper'.issues = paper.issues
      /\ paper'.junit = paper.junit /\ paper'.ok = paper.ok
      /\ paper'.quiescent = paper.quiescent
      /\ paper'.import = paper.import /\ paper'.gut = paper.gut
  BY DEF PrivateIsMade, Papers
<1>5. site' \in Sites /\ site'.private = "own" /\ site'.process = site.process
  BY DEF PrivateIsMade, Sites
<1>6. /\ job'.step \in Running /\ job'.step \notin BeforeLogs /\ job'.step \notin Importing
      /\ job'.step \notin Testing
  BY <1>3 DEF BeforeLogs, Importing, Testing, Running
<1>7. Journey' BY <1>2, <1>3, <1>4, <1>6 DEF Journey
<1>8. Judgeable' BY <1>2, <1>3, <1>4 DEF Judgeable
<1>9. ShardReported' BY <1>2, <1>3, <1>4, <1>5, <1>6 DEF ShardReported
<1> QED BY <1>3, <1>4, <1>5, <1>7, <1>8, <1>9, WorkerGoesOn

LEMMA PrivateFailsKeepsWorker ==
  ASSUME WorkerInv, PrivateFails
  PROVE  WorkerInv'
<1>1. /\ job.step = "environment" /\ job.step \in BeforeLogs /\ job.step \in Running
      /\ job.step # "judge"
  BY DEF PrivateFails, BeforeLogs, Running
<1>2. /\ job.private = "none"
      /\ paper.issues = {} /\ ~paper.junit /\ ~paper.ok /\ paper.quiescent
      /\ paper.gut = NotRun /\ ~paper.gut.ran
      /\ site.process # "live" /\ site.private \in {"absent", "foreign"}
  BY <1>1, PhaseFacts DEF Journey, ShardReported
<1>3. PICK kind \in {"other", "unexpected", "replaced"} :
        /\ job' = [To("cleanup") EXCEPT !.private = "path", !.bound = @ /\ kind = "other"]
        /\ paper' = [paper EXCEPT !.cleaned = FALSE, !.issues = @ \cup {kind}]
  BY DEF PrivateFails
<1>4. /\ job' \in WorkerJobs /\ job'.step = "cleanup" /\ job'.private = "path"
      /\ job'.bound => kind # "replaced"
  BY <1>3 DEF To, WorkerJobs, JobSteps
<1>5. /\ paper' \in Papers /\ ~paper'.cleaned /\ paper'.issues = {kind}
      /\ paper'.junit = paper.junit /\ paper'.ok = paper.ok
      /\ paper'.quiescent = paper.quiescent /\ paper'.gut = paper.gut
  BY <1>2, <1>3 DEF Papers, IssueKinds, Closed
<1>6. /\ site' \in Sites /\ site'.process = site.process /\ site'.private # "removed"
  BY <1>2 DEF PrivateFails, Sites
<1>7. job'.step \notin Running BY <1>4, StepsOfWorker
<1>8. Journey' BY <1>7 DEF Journey
<1>9. Judgeable' BY <1>2, <1>4, <1>5 DEF Judgeable
<1>10. ShardReported' BY <1>2, <1>3, <1>4, <1>5, <1>6, <1>7 DEF ShardReported
<1> QED BY <1>4, <1>5, <1>6, <1>8, <1>9, <1>10, WorkerGoesOn

LEMMA LogsAreMadeKeepsWorker ==
  ASSUME WorkerInv, LogsAreMade
  PROVE  WorkerInv'
<1>1. job.step = "logs" /\ job.step \in Running /\ site' = site BY DEF LogsAreMade, Running
<1>2. CASE StopRequested \/ NoBudget \/ Unforeseen \/ Raise("replaced") \/ Raise("cancelled")
  BY <1>1, <1>2, WorkerStops
<1>3. CASE /\ job' = [To("import") EXCEPT !.logged = TRUE]
           /\ paper' = [paper EXCEPT !.import = FailedAttempt, !.quiescent = FALSE]
  <2>1. /\ job.bound /\ job.private = "owned" /\ job.evidence = -1
        /\ job.step \notin BeforeLogs
        /\ paper.issues = {} /\ ~paper.junit /\ ~paper.ok
        /\ paper.gut = NotRun /\ ~paper.gut.ran /\ ~paper.cleaned
        /\ site.private # "removed"
    BY <1>1, PhaseFacts DEF Journey, ShardReported, BeforeLogs
  <2>2. /\ job' \in WorkerJobs /\ job'.step = "import" /\ job'.private = "owned"
        /\ job'.bound = job.bound /\ job'.evidence = job.evidence
    BY <1>3, <2>1 DEF To, WorkerJobs, JobSteps
  <2>3. /\ paper' \in Papers /\ paper'.issues = paper.issues
        /\ paper'.junit = paper.junit /\ paper'.ok = paper.ok
        /\ ~paper'.quiescent /\ paper'.cleaned = paper.cleaned
        /\ paper'.import = FailedAttempt /\ paper'.gut = paper.gut
    BY <1>3, PhaseFacts DEF Papers
  <2>4. /\ job'.step \in Running /\ job'.step \notin BeforeLogs /\ job'.step \in Importing
        /\ job'.step \notin Testing
    BY <2>2 DEF BeforeLogs, Importing, Testing, Running
  <2>5. Journey' BY <2>1, <2>2, <2>3, <2>4, PhaseFacts DEF Journey
  <2>6. Judgeable' BY <2>1, <2>2, <2>3 DEF Judgeable
  <2>7. ShardReported' BY <1>1, <2>1, <2>2, <2>3, <2>4 DEF ShardReported
  <2> QED BY <1>1, <2>2, <2>3, <2>5, <2>6, <2>7, WorkerGoesOn
<1> QED BY <1>2, <1>3 DEF LogsAreMade

LEMMA PhaseStartsKeepsWorker ==
  ASSUME WorkerInv, PhaseStarts
  PROVE  WorkerInv'
<1>1. job.step \in {"import", "gut"} /\ job.step \in Running
  BY DEF PhaseStarts, Running, Importing, Testing
<1>2. CASE (Unforeseen \/ Raise("replaced")) /\ site' = site BY <1>1, <1>2, WorkerStops
<1>3. CASE /\ job' = To(IF job.step = "import" THEN "importing" ELSE "testing")
           /\ site' = [site EXCEPT !.process = "live"]
           /\ paper' = paper
  <2>1. /\ job.bound /\ job.private = "owned" /\ job.evidence = -1
        /\ job.step \notin BeforeLogs /\ ~paper.quiescent
        /\ paper.issues = {} /\ ~paper.junit /\ ~paper.ok /\ ~paper.cleaned
        /\ paper.gut.ran => paper.import.ok
        /\ site.private # "removed"
    BY <1>1, PhaseFacts DEF Journey, ShardReported, BeforeLogs
  <2>2. /\ job.step = "import" => paper.import.ran /\ paper.gut = NotRun
        /\ job.step = "gut" => paper.import.ok /\ paper.gut.ran
    BY <1>1 DEF Journey, Running, Importing, Testing
  <2>3. /\ job' \in WorkerJobs /\ job'.private = job.private
        /\ job'.bound = job.bound /\ job'.evidence = job.evidence
        /\ job.step = "import" => job'.step = "importing"
        /\ job.step = "gut" => job'.step = "testing"
    BY <1>1, <1>3 DEF To, WorkerJobs, JobSteps
  <2>4. /\ site' \in Sites /\ site'.private = site.private BY <1>3 DEF Sites
  <2>5. /\ job'.step \in Running /\ job'.step \notin BeforeLogs
        /\ job'.step \in Importing => job.step = "import"
        /\ job'.step \in Testing => job.step = "gut"
        /\ job'.step \in {"importing", "testing"}
    BY <1>1, <2>3 DEF BeforeLogs, Importing, Testing, Running
  <2>6. Journey' BY <1>3, <2>1, <2>2, <2>3, <2>5 DEF Journey
  <2>7. Judgeable' BY <1>3, <2>1, <2>5 DEF Judgeable
  <2>8. ShardReported' BY <1>3, <2>1, <2>3, <2>4, <2>5 DEF ShardReported
  <2> QED BY <1>3, <2>3, <2>4, <2>5, <2>6, <2>7, <2>8, WorkerGoesOn
<1> QED BY <1>2, <1>3 DEF PhaseStarts

\* What is known while Godot runs.
LEMMA InAPhase ==
  ASSUME WorkerInv, job.step \in {"importing", "testing"}
  PROVE  /\ job.step \in Running /\ job.step \notin BeforeLogs
         /\ job.bound /\ job.private = "owned" /\ job.evidence = -1
         /\ ~paper.quiescent
         /\ paper.issues = {} /\ ~paper.junit /\ ~paper.ok /\ ~paper.cleaned
         /\ site.private # "removed"
         /\ job.step = "importing" => paper.gut = NotRun /\ ~paper.gut.ran
         /\ job.step = "testing" => paper.import.ok
<1>1. job.step \in Running /\ job.step \notin BeforeLogs
  BY DEF BeforeLogs, Running, Importing, Testing
<1>2. /\ job.bound /\ job.private = "owned" /\ job.evidence = -1 /\ ~paper.quiescent
      /\ paper.issues = {} /\ ~paper.junit /\ ~paper.ok
  BY <1>1 DEF Journey
<1>3. ~paper.cleaned /\ site.private # "removed" BY <1>1, <1>2 DEF ShardReported
<1>4. /\ job.step = "importing" => paper.gut = NotRun
      /\ job.step = "testing" => paper.import.ok
  BY <1>1 DEF Journey, Importing, Testing
<1> QED BY <1>1, <1>2, <1>3, <1>4, PhaseFacts

LEMMA PhaseEnds ==
  ASSUME WorkerInv, job.step \in {"importing", "testing"},
         NEW result \in PhaseResults, job' \in WorkerJobs, paper' \in Papers, site' \in Sites,
         job'.step = After(job.step), job'.bound = job.bound,
         job'.private = job.private, job'.evidence = job.evidence,
         paper'.issues = paper.issues, paper'.junit = paper.junit, paper'.ok = paper.ok,
         paper'.cleaned = paper.cleaned,
         job.step = "importing" => paper'.import = result /\ paper'.gut = paper.gut,
         job.step = "testing" => paper'.gut = result /\ paper'.import = paper.import,
         site'.private = site.private, paper'.quiescent => site'.process # "live"
  PROVE  WorkerInv'
<1>1. /\ job.step = "importing" => job'.step = "imported"
      /\ job.step = "testing" => job'.step = "tested"
  BY DEF After
<1>2. /\ job'.step \in Running /\ job'.step \notin BeforeLogs
      /\ job'.step \notin {"logs", "judge", "junit", "import", "importing", "gut", "testing"}
      /\ job'.step \in Importing => job.step = "importing"
      /\ job'.step \in Testing => job.step = "testing"
      /\ job'.step \in {"imported", "tested"}
  BY <1>1 DEF BeforeLogs, Importing, Testing, Running
<1>3. /\ job.step = "importing" => paper'.import.ran
      /\ job.step = "testing" => paper'.gut.ran /\ paper'.import.ok
      /\ paper'.gut.ran => paper'.import.ok
  BY InAPhase, PhaseFacts
<1>4. Journey' BY <1>2, <1>3, InAPhase DEF Journey
<1>5. Judgeable' BY <1>2, InAPhase DEF Judgeable
<1>6. ShardReported' BY <1>2, <1>3, InAPhase DEF ShardReported
<1> QED BY <1>2, <1>4, <1>5, <1>6, WorkerGoesOn

LEMMA PhaseIsQuietKeepsWorker ==
  ASSUME WorkerInv, PhaseIsQuiet
  PROVE  WorkerInv'
<1>1. /\ job.step \in {"importing", "testing"} /\ job.step \in Running
      /\ site' = [site EXCEPT !.process = "quiet"]
  BY InAPhase DEF PhaseIsQuiet
<1>2. CASE Raise("replaced") \/ Raise("other") BY <1>1, <1>2, IssuesOfWorker, WorkerLeaves
<1>3. CASE \E result \in PhaseResults, lifecycle \in BOOLEAN :
             /\ job' = [To(After(job.step)) EXCEPT !.lifecycle = lifecycle]
             /\ paper' = [paper EXCEPT ![InPhase(job.step)] = result, !.quiescent = TRUE]
  <2>1. PICK result \in PhaseResults, lifecycle \in BOOLEAN :
          /\ job' = [To(After(job.step)) EXCEPT !.lifecycle = lifecycle]
          /\ paper' = [paper EXCEPT ![InPhase(job.step)] = result, !.quiescent = TRUE]
    BY <1>3
  <2>2. After(job.step) \in JobSteps BY <1>1 DEF After, JobSteps
  <2>3. /\ job' \in WorkerJobs /\ job'.step = After(job.step) /\ job'.bound = job.bound
        /\ job'.private = job.private /\ job'.evidence = job.evidence
    BY <2>1, <2>2 DEF To, WorkerJobs
  <2>4. site' \in Sites /\ site'.process # "live" /\ site'.private = site.private
    BY <1>1 DEF Sites
  <2>5. CASE job.step = "importing"
    <3>1. paper' = [paper EXCEPT !.import = result, !.quiescent = TRUE]
      BY <2>1, <2>5 DEF InPhase
    <3>2. /\ paper' \in Papers /\ paper'.issues = paper.issues /\ paper'.junit = paper.junit
          /\ paper'.ok = paper.ok /\ paper'.cleaned = paper.cleaned
          /\ paper'.import = result /\ paper'.gut = paper.gut
      BY <3>1 DEF Papers
    <3> QED BY <1>1, <2>3, <2>4, <2>5, <3>2, PhaseEnds
  <2>6. CASE job.step = "testing"
    <3>1. paper' = [paper EXCEPT !.gut = result, !.quiescent = TRUE] BY <2>1, <2>6 DEF InPhase
    <3>2. /\ paper' \in Papers /\ paper'.issues = paper.issues /\ paper'.junit = paper.junit
          /\ paper'.ok = paper.ok /\ paper'.cleaned = paper.cleaned
          /\ paper'.import = paper.import /\ paper'.gut = result
      BY <3>1 DEF Papers
    <3> QED BY <1>1, <2>3, <2>4, <2>6, <3>2, PhaseEnds
  <2> QED BY <1>1, <2>5, <2>6
<1> QED BY <1>2, <1>3 DEF PhaseIsQuiet

LEMMA PhaseIsNotQuietKeepsWorker ==
  ASSUME WorkerInv, PhaseIsNotQuiet
  PROVE  WorkerInv'
<1>1. job.step \in {"importing", "testing"} /\ ~paper.quiescent /\ site' = site
  BY InAPhase DEF PhaseIsNotQuiet
<1>2. PICK stopped \in BOOLEAN :
        paper' = [paper EXCEPT ![InPhase(job.step)] = Phase(TRUE, FALSE, stopped)]
  BY DEF PhaseIsNotQuiet
<1>3. Phase(TRUE, FALSE, stopped) \in PhaseResults BY PhaseFacts
<1>4. After(job.step) \in JobSteps /\ job' = To(After(job.step))
  BY <1>1 DEF After, JobSteps, PhaseIsNotQuiet
<1>5. /\ job' \in WorkerJobs /\ job'.step = After(job.step) /\ job'.bound = job.bound
      /\ job'.private = job.private /\ job'.evidence = job.evidence
  BY <1>4 DEF To, WorkerJobs
<1>6. site' \in Sites /\ site'.private = site.private BY <1>1
<1>7. CASE job.step = "importing"
  <2>1. paper' = [paper EXCEPT !.import = Phase(TRUE, FALSE, stopped)] BY <1>2, <1>7 DEF InPhase
  <2>2. /\ paper' \in Papers /\ paper'.issues = paper.issues /\ paper'.junit = paper.junit
        /\ paper'.ok = paper.ok /\ paper'.cleaned = paper.cleaned
        /\ paper'.quiescent = paper.quiescent
        /\ paper'.import = Phase(TRUE, FALSE, stopped) /\ paper'.gut = paper.gut
    BY <1>3, <2>1 DEF Papers
  <2> QED BY <1>1, <1>3, <1>5, <1>6, <1>7, <2>2, PhaseEnds
<1>8. CASE job.step = "testing"
  <2>1. paper' = [paper EXCEPT !.gut = Phase(TRUE, FALSE, stopped)] BY <1>2, <1>8 DEF InPhase
  <2>2. /\ paper' \in Papers /\ paper'.issues = paper.issues /\ paper'.junit = paper.junit
        /\ paper'.ok = paper.ok /\ paper'.cleaned = paper.cleaned
        /\ paper'.quiescent = paper.quiescent
        /\ paper'.import = paper.import /\ paper'.gut = Phase(TRUE, FALSE, stopped)
    BY <1>3, <2>1 DEF Papers
  <2> QED BY <1>1, <1>3, <1>5, <1>6, <1>8, <2>2, PhaseEnds
<1> QED BY <1>1, <1>7, <1>8

LEMMA PhaseRaisesKeepsWorker ==
  ASSUME WorkerInv, PhaseRaises
  PROVE  WorkerInv'
<1>1. job.step \in Running /\ Raise("unexpected") BY InAPhase DEF PhaseRaises
<1>2. site' = site \/ site' = [site EXCEPT !.process = "quiet"] BY DEF PhaseRaises
<1> QED BY <1>1, <1>2, IssuesOfWorker, WorkerLeaves

LEMMA EndsKeepWorker ==
  ASSUME WorkerInv, PhaseIsDisturbed \/ ImportHasFailed
  PROVE  WorkerInv'
<1>1. job.step \in Running /\ site' = site
  BY DEF PhaseIsDisturbed, ImportHasFailed, Running, Importing, Testing
<1>2. StopRequested \/ Raise("replaced") \/ Raise("import_failed")
  BY DEF PhaseIsDisturbed, ImportHasFailed
<1> QED BY <1>1, <1>2, WorkerStops

LEMMA ImportHasPassedKeepsWorker ==
  ASSUME WorkerInv, ImportHasPassed
  PROVE  WorkerInv'
<1>1. job.step = "imported" /\ job.step \in Running /\ paper.import.ok /\ site' = site
  BY DEF ImportHasPassed, Running, Importing
<1>2. CASE NoBudget \/ Unforeseen BY <1>1, <1>2, WorkerStops
<1>3. CASE /\ job' = To("gut")
           /\ paper' = [paper EXCEPT !.gut = FailedAttempt, !.quiescent = FALSE]
  <2>1. /\ job.bound /\ job.private = "owned" /\ job.evidence = -1
        /\ job.step \notin BeforeLogs
        /\ paper.issues = {} /\ ~paper.junit /\ ~paper.ok /\ ~paper.cleaned
        /\ site.private # "removed"
    BY <1>1 DEF Journey, ShardReported, BeforeLogs
  <2>2. /\ job' \in WorkerJobs /\ job'.step = "gut" /\ job'.private = "owned"
        /\ job'.bound = job.bound /\ job'.evidence = job.evidence
    BY <1>3, <2>1 DEF To, WorkerJobs, JobSteps
  <2>3. /\ paper' \in Papers /\ paper'.issues = paper.issues
        /\ paper'.junit = paper.junit /\ paper'.ok = paper.ok
        /\ ~paper'.quiescent /\ paper'.cleaned = paper.cleaned
        /\ paper'.gut = FailedAttempt /\ paper'.import = paper.import
    BY <1>3, PhaseFacts DEF Papers
  <2>4. /\ job'.step \in Running /\ job'.step \notin BeforeLogs /\ job'.step \notin Importing
        /\ job'.step \in Testing
    BY <2>2 DEF BeforeLogs, Importing, Testing, Running
  <2>5. Journey' BY <1>1, <2>1, <2>2, <2>3, <2>4, PhaseFacts DEF Journey
  <2>6. Judgeable' BY <2>1, <2>2, <2>3 DEF Judgeable
  <2>7. ShardReported' BY <1>1, <2>1, <2>2, <2>3, <2>4 DEF ShardReported
  <2> QED BY <1>1, <2>2, <2>3, <2>5, <2>6, <2>7, WorkerGoesOn
<1> QED BY <1>2, <1>3 DEF ImportHasPassed

LEMMA GutIsTakenKeepsWorker ==
  ASSUME WorkerInv, GutIsTaken
  PROVE  WorkerInv'
<1>1. job.step = "tested" /\ job.step \in Running /\ site' = site
  BY DEF GutIsTaken, Running, Testing
<1>2. CASE Raise("gut_failed") BY <1>1, <1>2, WorkerStops
<1>3. CASE /\ paper.quiescent /\ job' = To("junit")
           /\ paper' = [paper EXCEPT !.lifecycle = job.lifecycle]
  <2>1. /\ job.bound /\ job.private = "owned" /\ job.evidence = -1
        /\ job.step \notin BeforeLogs /\ job.step \in Testing
        /\ paper.issues = {} /\ ~paper.junit /\ ~paper.ok /\ ~paper.cleaned
        /\ paper.import.ok /\ paper.gut.ran
        /\ site.private # "removed" /\ site.process # "live"
    BY <1>1, <1>3 DEF Journey, ShardReported, BeforeLogs, Testing
  <2>2. /\ job' \in WorkerJobs /\ job'.step = "junit" /\ job'.private = "owned"
        /\ job'.bound = job.bound /\ job'.evidence = job.evidence
    BY <1>3, <2>1 DEF To, WorkerJobs, JobSteps
  <2>3. /\ paper' \in Papers /\ paper'.issues = paper.issues
        /\ paper'.junit = paper.junit /\ paper'.ok = paper.ok
        /\ paper'.quiescent /\ paper'.cleaned = paper.cleaned
        /\ paper'.gut = paper.gut /\ paper'.import = paper.import
    BY <1>3 DEF WorkerJobs, Papers
  <2>4. /\ job'.step \in Running /\ job'.step \notin BeforeLogs /\ job'.step \notin Importing
        /\ job'.step \in Testing
    BY <2>2 DEF BeforeLogs, Importing, Testing, Running
  <2>5. Journey' BY <2>1, <2>2, <2>3, <2>4 DEF Journey
  <2>6. Judgeable' BY <2>1, <2>2, <2>3 DEF Judgeable
  <2>7. ShardReported' BY <1>1, <2>1, <2>2, <2>3, <2>4 DEF ShardReported
  <2> QED BY <1>1, <2>2, <2>3, <2>5, <2>6, <2>7, WorkerGoesOn
<1> QED BY <1>2, <1>3 DEF GutIsTaken

LEMMA JunitIsReadKeepsWorker ==
  ASSUME WorkerInv, JunitIsRead
  PROVE  WorkerInv'
<1>1. job.step = "junit" /\ job.step \in Running /\ site' = site
  BY DEF JunitIsRead, Running, Testing
<1>2. CASE \/ Raise("cancelled") \/ Raise("replaced") \/ Raise("junit_rejected")
           \/ Raise("unexpected")
  BY <1>1, <1>2, WorkerStops
<1>3. CASE /\ paper' = paper
           /\ \/ /\ site.pair > 0
                 /\ job' = [To("judge") EXCEPT !.evidence = site.pair]
              \/ GutFailed /\ job' = To("judge")
  <2>1. /\ job.bound /\ job.private = "owned" /\ job.evidence = -1
        /\ job.step \notin BeforeLogs /\ job.step \in Testing
        /\ paper.issues = {} /\ ~paper.junit /\ ~paper.ok /\ ~paper.cleaned /\ paper.quiescent
        /\ paper.import.ok /\ paper.gut.ran
        /\ site.private # "removed" /\ site.process # "live"
    BY <1>1 DEF Journey, ShardReported, BeforeLogs, Testing
  <2>2. /\ job' \in WorkerJobs /\ job'.step = "judge" /\ job'.private = "owned"
        /\ job'.bound = job.bound
        /\ IF job'.evidence = -1 THEN GutFailed ELSE job'.evidence = site.pair /\ site.pair > 0
    <3>1. job \in WorkerJobs /\ site.pair \in 0 .. 2 BY DEF Sites
    <3>2. CASE site.pair > 0 /\ job' = [To("judge") EXCEPT !.evidence = site.pair]
      <4>1. site.pair \in -1 .. 2 /\ site.pair # -1 /\ "judge" \in JobSteps
        BY <3>1, <3>2 DEF JobSteps
      <4>2. /\ job' \in WorkerJobs /\ job'.step = "judge" /\ job'.private = "owned"
            /\ job'.bound = job.bound /\ job'.evidence = site.pair
        BY <2>1, <3>1, <3>2, <4>1 DEF To, WorkerJobs
      <4> QED BY <3>2, <4>1, <4>2
    <3>3. CASE GutFailed /\ job' = To("judge") BY <2>1, <3>1, <3>3 DEF To, WorkerJobs, JobSteps
    <3> QED BY <1>3, <3>2, <3>3
  <2>3. GutFailed' = GutFailed BY <1>3 DEF GutFailed
  <2>4. /\ job'.step \in Running /\ job'.step \notin BeforeLogs /\ job'.step \notin Importing
        /\ job'.step \in Testing
    BY <2>2 DEF BeforeLogs, Importing, Testing, Running
  <2>5. Journey' BY <1>1, <1>3, <2>1, <2>2, <2>3, <2>4 DEF Journey
  <2>6. Judgeable' BY <1>3, <2>1, <2>2 DEF Judgeable
  <2>7. ShardReported' BY <1>1, <1>3, <2>1, <2>2, <2>4 DEF ShardReported
  <2> QED BY <1>1, <1>3, <2>2, <2>5, <2>6, <2>7, WorkerGoesOn
<1> QED BY <1>2, <1>3 DEF JunitIsRead

LEMMA GutIsJudgedKeepsWorker ==
  ASSUME WorkerInv, GutIsJudged
  PROVE  WorkerInv'
<1>1. /\ job.step = "judge" /\ job.step \in Running /\ site' = site
      /\ job.step \notin BeforeLogs
      /\ job.step \in Testing
  BY DEF GutIsJudged, Running, BeforeLogs, Testing
<1>2. /\ job.bound /\ job.private = "owned" /\ ~paper.cleaned /\ paper.quiescent
      /\ IF job.evidence = -1 THEN GutFailed ELSE job.evidence = site.pair /\ site.pair > 0
      /\ paper.import.ok /\ paper.gut.ran
      /\ site.private # "removed" /\ site.process # "live"
  BY <1>1 DEF Journey, ShardReported
<1>3. /\ job' \in WorkerJobs /\ job'.step = "cleanup" /\ job'.private = "owned"
      /\ job'.bound = job.bound /\ job'.evidence = job.evidence
  BY <1>2 DEF GutIsJudged, To, WorkerJobs, JobSteps
<1>4. GutFailed \in BOOLEAN BY PhaseFacts DEF GutFailed
<1>5. /\ paper' \in Papers /\ paper'.junit = (job.evidence >= 0) /\ paper'.ok = ~GutFailed
      /\ paper'.issues = IF GutFailed THEN {"gut_failed"} ELSE {}
      /\ paper'.quiescent = paper.quiescent /\ paper'.cleaned = paper.cleaned
      /\ paper'.gut = paper.gut /\ paper'.import = paper.import
      /\ paper'.lifecycle = paper.lifecycle
  <2>1. paper \in Papers /\ (job.evidence >= 0) \in BOOLEAN OBVIOUS
  <2>2. (IF GutFailed THEN {"gut_failed"} ELSE {}) \in SUBSET IssueKinds BY IssuesOfWorker
  <2>3. (~GutFailed) \in BOOLEAN OBVIOUS
  <2>4. paper' = [paper EXCEPT !.junit = job.evidence >= 0, !.ok = ~GutFailed,
                               !.issues = IF GutFailed THEN {"gut_failed"} ELSE {}]
    BY DEF GutIsJudged
  <2> QED BY <2>1, <2>2, <2>3, <2>4 DEF Papers
<1>6. GutFailed' = GutFailed BY <1>5 DEF GutFailed
<1>7. job.evidence >= 0 <=> job.evidence # -1 BY DEF WorkerJobs
<1>8. job'.step \notin Running BY <1>3, StepsOfWorker
<1>9. Journey' BY <1>8 DEF Journey
<1>10. Judgeable'
  <2>1. job'.bound => "replaced" \notin paper'.issues BY <1>5
  <2>2. paper'.ok <=> paper'.issues = {} BY <1>4, <1>5
  <2>3. paper'.ok => ~GutFailed' /\ paper'.junit /\ job'.bound
    BY <1>2, <1>3, <1>4, <1>5, <1>6, <1>7
  <2> QED BY <2>1, <2>2, <2>3 DEF Judgeable
<1>11. ShardReported' BY <1>1, <1>2, <1>3, <1>5, <1>7, <1>8 DEF ShardReported
<1> QED BY <1>1, <1>3, <1>5, <1>9, <1>10, <1>11, WorkerGoesOn

\* A step of the finally clause: what it may not touch, and what it must have done.
LEMMA WorkerCleansUp ==
  ASSUME WorkerInv, job.step = "cleanup", job' = To("finish"),
         NEW ok \in BOOLEAN, NEW cleaned \in BOOLEAN, NEW issues \in SUBSET IssueKinds,
         paper' = [paper EXCEPT !.ok = ok, !.cleaned = cleaned, !.issues = issues],
         ok = (issues = {}), ok => paper.ok,
         "replaced" \in issues => "replaced" \in paper.issues,
         cleaned = ("cleanup" \notin issues),
         site' \in Sites, site'.process = site.process, site'.pair = site.pair,
         cleaned => paper.quiescent /\ site'.private # "own",
         site'.private = "removed" => paper.quiescent,
         job.private = "none" => site'.private = site.private
  PROVE  WorkerInv'
<1>1. /\ job' \in WorkerJobs /\ job'.step = "finish" /\ job'.private = job.private
      /\ job'.bound = job.bound /\ job'.evidence = job.evidence
  BY DEF To, WorkerJobs, JobSteps
<1>2. /\ paper' \in Papers /\ paper'.ok = ok /\ paper'.cleaned = cleaned
      /\ paper'.issues = issues /\ paper'.junit = paper.junit
      /\ paper'.quiescent = paper.quiescent /\ paper'.lifecycle = paper.lifecycle
      /\ paper'.gut = paper.gut /\ paper'.import = paper.import
  <2>1. paper \in Papers OBVIOUS
  <2>2. /\ paper'.ok = ok /\ paper'.cleaned = cleaned
        /\ paper'.issues = issues /\ paper'.junit = paper.junit
        /\ paper'.quiescent = paper.quiescent /\ paper'.lifecycle = paper.lifecycle
        /\ paper'.gut = paper.gut /\ paper'.import = paper.import
    BY <2>1 DEF Papers
  <2>3. paper' \in Papers BY <2>1 DEF Papers
  <2> QED BY <2>2, <2>3
<1>3. GutFailed' = GutFailed BY <1>2 DEF GutFailed
<1>4. job'.step \notin Running /\ job'.step # "cleanup" BY <1>1, StepsOfWorker
<1>5. Journey' BY <1>4 DEF Journey
<1>6. /\ job.bound => "replaced" \notin paper.issues
      /\ paper.ok => ~GutFailed /\ paper.junit /\ job.bound
  BY DEF Judgeable
<1>7. Judgeable' BY <1>1, <1>2, <1>3, <1>6 DEF Judgeable
<1>8. /\ paper.quiescent => site.process # "live"
      /\ paper.gut.ran => paper.import.ok
      /\ paper.junit => /\ paper.gut.ran /\ paper.quiescent
                        /\ job.evidence = site.pair /\ site.pair > 0
      /\ job.private = "none" => paper.quiescent /\ site.private \in {"absent", "foreign"}
      /\ job.private = "path" => paper.quiescent
  BY DEF ShardReported
<1>9. ShardReported' BY <1>1, <1>2, <1>4, <1>8 DEF ShardReported
<1> QED BY <1>1, <1>2, <1>5, <1>7, <1>9, WorkerGoesOn

LEMMA AtCleanup ==
  ASSUME WorkerInv, job.step = "cleanup"
  PROVE  /\ paper.ok \in BOOLEAN /\ paper.cleaned \in BOOLEAN /\ paper.issues \in SUBSET IssueKinds
         /\ (paper.ok <=> paper.issues = {})
         /\ (paper.cleaned <=> job.private = "none")
         /\ site \in Sites /\ site.private # "removed" /\ "cleanup" \notin paper.issues
         /\ job.private \in {"none", "path"} => paper.quiescent
         /\ job.private = "none" => site.private \in {"absent", "foreign"}
         /\ [paper EXCEPT !.ok = @, !.cleaned = @, !.issues = @] = paper
<1>1. job \in WorkerJobs /\ paper \in Papers /\ site \in Sites OBVIOUS
<1>2. /\ paper.ok \in BOOLEAN /\ paper.cleaned \in BOOLEAN /\ paper.issues \in SUBSET IssueKinds
      /\ [paper EXCEPT !.ok = @, !.cleaned = @, !.issues = @] = paper
  BY <1>1 DEF Papers
<1>3. (paper.ok <=> paper.issues = {}) BY <1>2 DEF Judgeable
<1>4. /\ (paper.cleaned <=> job.private = "none")
      /\ site.private # "removed" /\ "cleanup" \notin paper.issues
      /\ job.private \in {"none", "path"} => paper.quiescent
      /\ job.private = "none" => site.private \in {"absent", "foreign"}
  BY <1>2 DEF ShardReported
<1> QED BY <1>1, <1>2, <1>3, <1>4

LEMMA PrivateIsKeptKeepsWorker ==
  ASSUME WorkerInv, PrivateIsKept
  PROVE  WorkerInv'
<1>1. /\ job.step = "cleanup" /\ job.private # "none" /\ job' = To("finish") /\ site' = site
      /\ paper' = CleanupFailed
  BY DEF PrivateIsKept
<1>2. "cleanup" \in IssueKinds /\ "cleanup" # "replaced" BY DEF IssueKinds
<1>3. paper' = [paper EXCEPT !.ok = FALSE, !.cleaned = FALSE,
                             !.issues = paper.issues \cup {"cleanup"}]
  BY <1>1, AtCleanup DEF CleanupFailed, Papers
<1> DEFINE issues == paper.issues \cup {"cleanup"}
<1>4. /\ issues \in SUBSET IssueKinds /\ FALSE = (issues = {})
      /\ "replaced" \in issues => "replaced" \in paper.issues
      /\ FALSE = ("cleanup" \notin issues)
  BY <1>1, <1>2, AtCleanup
<1>5. /\ site' \in Sites /\ site'.process = site.process /\ site'.pair = site.pair
      /\ site'.private # "removed" /\ site'.private = site.private
  BY <1>1, AtCleanup
<1> HIDE DEF issues
<1> QED BY <1>1, <1>3, <1>4, <1>5, WorkerCleansUp DEF issues

LEMMA PrivateIsRemovedKeepsWorker ==
  ASSUME WorkerInv, PrivateIsRemoved
  PROVE  WorkerInv'
<1>1. /\ job.step = "cleanup" /\ job.private = "owned" /\ job' = To("finish")
      /\ paper.quiescent /\ paper' = Cleaned
  BY DEF PrivateIsRemoved
<1>2. paper' = [paper EXCEPT !.ok = paper.ok, !.cleaned = TRUE, !.issues = paper.issues]
  BY <1>1 DEF Cleaned, Papers
<1>3. /\ site' \in Sites /\ site'.private = "removed"
      /\ site'.process = site.process /\ site'.pair = site.pair
  BY DEF PrivateIsRemoved, Sites
<1> QED BY <1>1, <1>2, <1>3, AtCleanup, WorkerCleansUp

LEMMA NothingPrivateKeepsWorker ==
  ASSUME WorkerInv, NothingPrivate
  PROVE  WorkerInv'
<1>1. job.step = "cleanup" /\ job' = To("finish") /\ site' = site BY DEF NothingPrivate
<1>2. paper' = [paper EXCEPT !.ok = paper.ok, !.cleaned = TRUE, !.issues = paper.issues]
  BY <1>1, AtCleanup DEF NothingPrivate, Cleaned, Papers
<1>3. site.private # "own" /\ paper.quiescent BY <1>1, AtCleanup DEF NothingPrivate, Present
<1>4. /\ paper.ok \in BOOLEAN /\ paper.issues \in SUBSET IssueKinds
      /\ (paper.ok <=> paper.issues = {}) /\ "cleanup" \notin paper.issues
      /\ site' \in Sites /\ site'.private # "removed"
  BY <1>1, AtCleanup
<1> QED BY <1>1, <1>2, <1>3, <1>4, WorkerCleansUp

LEMMA SurroundingsKeepWorker ==
  ASSUME WorkerInv, WorkerIsStopped \/ SomebodyReplaces \/ PairIsWritten, job.step # "ended"
  PROVE  WorkerInv'
<1>1. job' = job /\ paper' = paper /\ job.step # "ended"
  BY DEF WorkerIsStopped, SomebodyReplaces, PairIsWritten
<1>2. site \in Sites OBVIOUS
<1>3. /\ site' \in Sites /\ site'.process = site.process
      /\ \/ site'.private = site.private
         \/ job.private = "owned" /\ site'.private = "foreign"
      /\ site'.pair = site.pair \/ site.process = "live"
  <2>1. CASE WorkerIsStopped BY <1>2, <2>1 DEF WorkerIsStopped, Sites
  <2>2. CASE SomebodyReplaces BY <1>2, <2>2 DEF SomebodyReplaces, Sites
  <2>3. CASE PairIsWritten BY <1>2, <2>3 DEF PairIsWritten, Sites
  <2> QED BY <2>1, <2>2, <2>3
<1>5. GutFailed' = GutFailed BY <1>1 DEF GutFailed
<1>6. /\ paper.quiescent => site.process # "live"
      /\ paper.junit => paper.quiescent
  BY DEF ShardReported
<1>7. job.step = "judge" => paper.quiescent BY DEF Journey, Running, Testing
<1>8. Journey' BY <1>1, <1>3, <1>5, <1>6, <1>7 DEF Journey
<1>9. Judgeable' BY <1>1, <1>5 DEF Judgeable
<1>10. ShardReported OBVIOUS
<1>11. /\ paper.junit => site'.pair = site.pair
       /\ site'.private = "own" => site.private = "own"
       /\ site'.private = "removed" => site.private = "removed"
       /\ job.private = "none" => site'.private = site.private
  BY <1>3, <1>6
<1>12. ShardReported' BY <1>1, <1>3, <1>10, <1>11 DEF ShardReported
<1> QED BY <1>1, <1>3, <1>8, <1>9, <1>12, WorkerGoesOn

\* What it left may write on after its answer, but not where that names evidence.
LEMMA LatePairKeepsWorker ==
  ASSUME WorkerInv, PairIsWritten, job.step = "ended"
  PROVE  WorkerInv'
<1>1. /\ job' = job /\ paper' = paper /\ site' = [site EXCEPT !.pair = @ + 1]
      /\ site.process = "live" /\ site.pair < 2
  BY DEF PairIsWritten
<1>2. site \in Sites OBVIOUS
<1>3. /\ site' \in Sites /\ site'.process = site.process /\ site'.private = site.private
      /\ site'.cancelled = site.cancelled /\ site'.late = site.late
      /\ site'.workspace = site.workspace /\ site'.managed = site.managed
  BY <1>1, <1>2 DEF Sites
<1>4. ~paper.quiescent /\ ~paper.junit BY <1>1 DEF ShardReported
<1>5. Journey' /\ Judgeable' BY <1>1, StepsOfWorker DEF Journey, Judgeable
<1>6. ShardReported' BY <1>1, <1>3, <1>4 DEF ShardReported
<1>7. ChainOwn' = ChainOwn /\ WorkspaceOwn' = WorkspaceOwn BY <1>3 DEF ChainOwn, WorkspaceOwn
<1>8. WorkerClaimsHold' BY <1>1, <1>3, <1>4, <1>7 DEF WorkerReportEarned, WorkerClaimsHold
<1>9. WorkerReportFits' BY <1>1, <1>3 DEF WorkerReportEarned, WorkerReportFits, Answer
<1> QED BY <1>1, <1>3, <1>5, <1>6, <1>8, <1>9 DEF WorkerReportEarned

LEMMA ExpectedOfWorker ==
  ASSUME NEW failure \in Failures, NEW retained \in BOOLEAN, NEW late \in BOOLEAN, NEW who,
         NEW cancelled
  PROVE  WorkerReport(who, failure, retained, late, cancelled) \in WorkerReports(who, cancelled)
BY DEF WorkerReports

\* The last look and the answer.
LEMMA AnswerKeepsWorker ==
  ASSUME WorkerInv, WorkerAnswers
  PROVE  WorkerInv'
<1> DEFINE stopped == IF site.cancelled THEN {"cancelled"}
                      ELSE IF site.late THEN {"deadline"} ELSE {}
           lost == IF job.bound /\ ~(IF job.rooted THEN ChainOwn ELSE WorkspaceOwn)
                   THEN {"replaced"} ELSE {}
           closed == [paper EXCEPT !.ok = @ /\ stopped \cup lost = {},
                                   !.issues = @ \cup stopped \cup lost,
                                   !.permitted = job.bound /\ lost = {} /\ paper.quiescent]
<1>1. /\ job.step = "finish" /\ job' = To("ended") /\ site' = site
      /\ paper' = [closed EXCEPT !.safe = ContinuationIsSafe(closed)]
  BY DEF WorkerAnswers
<1>2. job \in WorkerJobs /\ paper \in Papers /\ site \in Sites OBVIOUS
<1>3. /\ job' \in WorkerJobs /\ job'.step = "ended" /\ job'.private = job.private
      /\ job'.bound = job.bound /\ job'.rooted = job.rooted /\ job'.evidence = job.evidence
  BY <1>1, <1>2 DEF To, WorkerJobs, JobSteps
<1>4. /\ stopped \in SUBSET IssueKinds /\ lost \in SUBSET IssueKinds
      /\ "replaced" \notin stopped /\ "cleanup" \notin stopped \cup lost
      /\ "deadline" \notin lost /\ "cancelled" \notin lost
      /\ site.cancelled => "cancelled" \in stopped
      /\ site.late => stopped # {}
      /\ stopped \cap Closed = {} /\ lost \cap Closed = {}
  BY IssuesOfWorker DEF IssueKinds, Closed
<1>5. /\ job.bound \in BOOLEAN /\ job.rooted \in BOOLEAN /\ paper.ok \in BOOLEAN
      /\ paper.quiescent \in BOOLEAN /\ paper.cleaned \in BOOLEAN /\ paper.junit \in BOOLEAN
      /\ paper.lifecycle \in BOOLEAN /\ paper.issues \in SUBSET IssueKinds
      /\ site.cancelled \in BOOLEAN /\ site.late \in BOOLEAN
  BY <1>2 DEF WorkerJobs, Papers, Sites
<1> DEFINE issues == paper.issues \cup stopped \cup lost
           permitted == job.bound /\ lost = {} /\ paper.quiescent
<1>6. /\ closed \in Papers
      /\ closed.ok = (paper.ok /\ stopped \cup lost = {})
      /\ closed.issues = issues /\ closed.permitted = permitted
      /\ closed.junit = paper.junit /\ closed.lifecycle = paper.lifecycle
      /\ closed.quiescent = paper.quiescent /\ closed.cleaned = paper.cleaned
      /\ closed.import = paper.import /\ closed.gut = paper.gut
  <2> HIDE DEF stopped, lost
  <2>1. issues \in SUBSET IssueKinds /\ (paper.ok /\ stopped \cup lost = {}) \in BOOLEAN
        /\ permitted \in BOOLEAN
    BY <1>4, <1>5
  <2> QED BY <1>2, <2>1 DEF Papers
<1> DEFINE safe == ContinuationIsSafe(closed)
<1>7. safe \in BOOLEAN BY DEF ContinuationIsSafe
<1>8. /\ paper' \in Papers /\ paper'.ok = (paper.ok /\ stopped \cup lost = {})
      /\ paper'.issues = issues /\ paper'.permitted = permitted /\ paper'.safe = safe
      /\ paper'.junit = paper.junit /\ paper'.lifecycle = paper.lifecycle
      /\ paper'.quiescent = paper.quiescent /\ paper'.cleaned = paper.cleaned
      /\ paper'.import = paper.import /\ paper'.gut = paper.gut
  <2> HIDE DEF closed, safe, issues, permitted, stopped, lost
  <2> QED BY <1>1, <1>6, <1>7 DEF Papers, safe
<1>9. \* What was known at the last look.
      /\ (paper.ok <=> paper.issues = {})
      /\ paper.ok => ~GutFailed /\ paper.junit /\ job.bound
      /\ job.bound => "replaced" \notin paper.issues
      /\ paper.quiescent => site.process # "live"
      /\ paper.gut.ran => paper.import.ok
      /\ paper.junit => /\ paper.gut.ran /\ paper.quiescent
                        /\ job.evidence = site.pair /\ site.pair > 0
      /\ site.private = "removed" => paper.quiescent
      /\ (paper.cleaned <=> "cleanup" \notin paper.issues)
      /\ paper.cleaned => paper.quiescent /\ site.private # "own"
  BY <1>1, <1>5, StepsOfWorker DEF Judgeable, ShardReported
<1>10. /\ paper.import.ok => paper.import.ran /\ ~paper.import.stopped
       /\ paper.gut.ok => paper.gut.ran /\ ~paper.gut.stopped
  BY <1>2, PhaseFacts DEF Papers
<1>11. \* What it is safe to go on after.
       safe => \/ paper'.ok
               \/ /\ paper.quiescent /\ paper.cleaned /\ permitted /\ paper.import.ran
                  /\ \E kind \in Closed : issues = {kind}
  <2> HIDE DEF closed, issues, permitted, stopped, lost
  <2> QED BY <1>6, <1>8, <1>9, <1>10 DEF ContinuationIsSafe, Closed
<1>12. \* What a report without an issue says.
       /\ paper'.ok = (issues = {})
       /\ paper'.ok => /\ paper.import.ok /\ paper.gut.ok /\ paper.junit /\ paper.lifecycle
                       /\ paper.quiescent /\ paper.cleaned /\ permitted /\ safe
                       /\ ~site.cancelled /\ ~site.late
  <2>1. paper'.ok = (issues = {})
    <3> HIDE DEF stopped, lost
    <3> QED BY <1>8, <1>9
  <2>2. paper'.ok => /\ stopped = {} /\ lost = {} /\ ~GutFailed /\ paper.junit /\ job.bound
                     /\ "cleanup" \notin paper.issues /\ closed.ok
    <3> HIDE DEF stopped, lost, closed
    <3> QED BY <1>6, <1>8, <1>9
  <2>3. closed.ok => safe BY DEF ContinuationIsSafe
  <2> QED
    <3> HIDE DEF stopped, lost, closed, safe
    <3> QED BY <1>4, <1>9, <2>1, <2>2, <2>3 DEF GutFailed
<1>13. (\E kind \in Closed : issues = {kind})
         => /\ stopped = {} /\ lost = {} /\ ~site.cancelled /\ ~site.late
  <2> HIDE DEF stopped, lost
  <2>1. SUFFICES ASSUME NEW kind \in Closed, issues = {kind}
                 PROVE  stopped = {} /\ lost = {}
    BY <1>4
  <2>2. stopped \subseteq {kind} /\ lost \subseteq {kind} BY <2>1
  <2> QED BY <1>4, <2>2
<1>14. lost = {} => (job.bound => IF job.rooted THEN ChainOwn ELSE WorkspaceOwn) OBVIOUS
<1>15. ChainOwn' = ChainOwn /\ WorkspaceOwn' = WorkspaceOwn BY <1>1 DEF ChainOwn, WorkspaceOwn
<1>16. Journey' /\ Judgeable' BY <1>3, StepsOfWorker DEF Journey, Judgeable
<1> HIDE DEF closed, safe, stopped, lost
<1>17. "cleanup" \in issues <=> "cleanup" \in paper.issues BY <1>4
<1>18. ShardReported' BY <1>1, <1>3, <1>8, <1>9, <1>17, StepsOfWorker DEF ShardReported
<1>19. WorkerClaimsHold'
  <2>1. site'.private = "removed" => site'.process # "live" BY <1>1, <1>9
  <2>2. /\ paper'.quiescent => site'.process # "live"
        /\ paper'.cleaned => site'.private # "own"
    BY <1>1, <1>8, <1>9
  <2>3. paper'.permitted => IF job'.rooted THEN ChainOwn' ELSE WorkspaceOwn'
    BY <1>3, <1>8, <1>14, <1>15
  <2>4. paper'.junit => job'.evidence = site'.pair /\ site'.pair > 0 BY <1>1, <1>3, <1>8, <1>9
  <2>5. paper'.safe => /\ permitted /\ paper.cleaned /\ paper.import.ran
                       /\ ~site.cancelled /\ ~site.late
    <3>1. CASE paper'.ok BY <3>1, <1>10, <1>12
    <3>2. CASE ~paper'.ok BY <3>2, <1>8, <1>11, <1>13
    <3> QED BY <3>1, <3>2
  <2>6. /\ paper'.safe => paper'.permitted /\ paper'.cleaned /\ paper'.import.ran
        /\ paper'.safe => ~site'.cancelled /\ ~site'.late
    BY <1>1, <1>8, <2>5
  <2> QED BY <2>1, <2>2, <2>3, <2>4, <2>6 DEF WorkerClaimsHold
<1>20. paper'.safe = ContinuationIsSafe(paper')
  <2>1. ContinuationIsSafe(paper') = ContinuationIsSafe(closed)
    BY <1>6, <1>8 DEF ContinuationIsSafe
  <2> QED BY <1>8, <2>1 DEF safe
<1>21. permitted => paper.quiescent /\ "replaced" \notin issues BY <1>4, <1>9
<1>22. ShapeAccepted(paper')
  BY <1>8, <1>9, <1>10, <1>12, <1>17, <1>20, <1>21, <1>2 DEF ShapeAccepted, Papers
<1> DEFINE failure == IF ~paper.quiescent THEN "unquiet" ELSE IF ~permitted THEN "identity"
                      ELSE IF issues = {} THEN "none" ELSE IF safe THEN "tests" ELSE "other"
           late == "deadline" \in issues
           expected == WorkerReport(1, failure, ~paper.cleaned, late, site.cancelled)
<1>23. /\ failure \in Failures /\ late \in BOOLEAN /\ (~paper.cleaned) \in BOOLEAN
       /\ failure = "unquiet" <=> ~paper.quiescent
       /\ failure = "identity" <=> paper.quiescent /\ ~permitted
       /\ failure = "none" <=> paper.quiescent /\ permitted /\ issues = {}
       /\ failure = "tests" <=> paper.quiescent /\ permitted /\ issues # {} /\ safe
  BY DEF Failures
<1> HIDE DEF failure, late
<1> DEFINE said == ({failure} \ {"none"}) \cup (IF paper.cleaned THEN {} ELSE {"cleanup"})
                     \cup (IF late THEN {"deadline"} ELSE {})
                     \cup (IF site.cancelled THEN {"cancelled"} ELSE {})
<1>24. issues = {} => /\ failure = "none" /\ paper.cleaned /\ ~late /\ ~site.cancelled
                      /\ safe
  BY <1>12, <1>23 DEF late
<1>25. failure = "none" => issues = {} BY <1>23
<1>26. said = {} <=> issues = {} BY <1>24, <1>25
<1>27. issues # {} /\ safe => /\ failure = "tests" /\ paper.cleaned /\ permitted
                              /\ ~late /\ ~site.cancelled
  <2> SUFFICES ASSUME issues # {}, safe
               PROVE  /\ failure = "tests" /\ paper.cleaned /\ permitted
                      /\ ~late /\ ~site.cancelled
    OBVIOUS
  <2>1. /\ paper.quiescent /\ paper.cleaned /\ permitted
        /\ \E kind \in Closed : issues = {kind}
    BY <1>8, <1>11, <1>12
  <2>2. "deadline" \notin issues BY <2>1 DEF Closed
  <2> QED BY <1>13, <1>23, <2>1, <2>2 DEF late
<1>28. safe <=> said = {} \/ (paper.cleaned /\ permitted /\ said = {"tests"})
  <2>1. safe => said = {} \/ (paper.cleaned /\ permitted /\ said = {"tests"}) BY <1>26, <1>27
  <2>2. said = {} => safe BY <1>24, <1>26
  <2>3. permitted /\ said = {"tests"} => safe
    <3>1. said = {"tests"} => failure \in {"tests", "none"} OBVIOUS
    <3> QED BY <3>1, <1>23, <1>25, <1>26
  <2> QED BY <2>1, <2>2, <2>3
<1>29. Answer' = expected
  <2>1. /\ paper.quiescent = (failure # "unquiet")
        /\ paper.cleaned = (failure # "unquiet" /\ paper.cleaned)
        /\ permitted = (failure # "unquiet" /\ failure # "identity")
    BY <1>5, <1>9, <1>23
  <2>2. expected = [who |-> 1, ok |-> said = {}, deadlineFailed |-> late,
                    quiescent |-> failure # "unquiet",
                    cleaned |-> failure # "unquiet" /\ paper.cleaned,
                    permitted |-> failure # "unquiet" /\ failure # "identity",
                    continuationSafe |->
                      said = {} \/ (paper.cleaned /\ permitted /\ said = {"tests"})]
    BY <1>5, <2>1 DEF WorkerReport
  <2>3. Answer' = [who |-> 1, ok |-> issues = {}, deadlineFailed |-> late,
                   quiescent |-> paper.quiescent, cleaned |-> paper.cleaned,
                   permitted |-> permitted, continuationSafe |-> safe]
    BY <1>8, <1>12 DEF Answer, late
  <2>4. /\ (said = {}) = (issues = {})
        /\ safe = (said = {} \/ (paper.cleaned /\ permitted /\ said = {"tests"}))
    BY <1>7, <1>26, <1>28 DEF safe
  <2> HIDE DEF said, expected, issues, permitted
  <2> QED BY <2>1, <2>2, <2>3, <2>4
<1>30. Answer' \in WorkerReports(1, site'.cancelled)
  <2> HIDE DEF expected
  <2>1. expected \in WorkerReports(1, site.cancelled)
    <3>1. failure \in Failures /\ (~paper.cleaned) \in BOOLEAN /\ late \in BOOLEAN BY <1>23
    <3> QED BY <3>1, ExpectedOfWorker DEF expected
  <2> QED BY <1>1, <1>29, <2>1
<1>31. WorkerReportEarned' BY <1>19, <1>22, <1>30 DEF WorkerReportEarned, WorkerReportFits
<1> QED BY <1>1, <1>2, <1>3, <1>8, <1>16, <1>18, <1>31

LEMMA NextWorkerInv == WorkerInv /\ [WorkerThreadNext]_workerVars => WorkerInv'
<1> SUFFICES ASSUME WorkerInv, [WorkerThreadNext]_workerVars PROVE WorkerInv' OBVIOUS
<1>1. CASE WorkerIsStopped \/ SomebodyReplaces \/ PairIsWritten
  <2>1. job.step = "ended" => PairIsWritten
    BY <1>1 DEF WorkerIsStopped, SomebodyReplaces, Working
  <2> QED BY <1>1, <2>1, SurroundingsKeepWorker, LatePairKeepsWorker
<1>2. CASE WorkerBegins \/ WorkspaceIsBound \/ ShardIsBound BY <1>2, PreparationKeepsWorker
<1>3. CASE PrivateIsMade \/ PrivateFails \/ LogsAreMade
  BY <1>3, PrivateIsMadeKeepsWorker, PrivateFailsKeepsWorker, LogsAreMadeKeepsWorker
<1>4. CASE PhaseStarts \/ PhaseIsQuiet \/ PhaseIsNotQuiet \/ PhaseRaises
  BY <1>4, PhaseStartsKeepsWorker, PhaseIsQuietKeepsWorker, PhaseIsNotQuietKeepsWorker,
     PhaseRaisesKeepsWorker
<1>5. CASE PhaseIsDisturbed \/ ImportHasFailed \/ ImportHasPassed
  BY <1>5, EndsKeepWorker, ImportHasPassedKeepsWorker
<1>6. CASE GutIsTaken \/ JunitIsRead \/ GutIsJudged
  BY <1>6, GutIsTakenKeepsWorker, JunitIsReadKeepsWorker, GutIsJudgedKeepsWorker
<1>7. CASE PrivateIsKept \/ PrivateIsRemoved \/ NothingPrivate
  BY <1>7, PrivateIsKeptKeepsWorker, PrivateIsRemovedKeepsWorker, NothingPrivateKeepsWorker
<1>8. CASE WorkerAnswers BY <1>8, AnswerKeepsWorker
<1>9. CASE UNCHANGED workerVars
  BY <1>9 DEF workerVars, Journey, ShardReported, Judgeable, GutFailed, WorkerReportEarned,
     WorkerReportFits, WorkerClaimsHold, Answer, ChainOwn, WorkspaceOwn
<1> QED BY <1>1, <1>2, <1>3, <1>4, <1>5, <1>6, <1>7, <1>8, <1>9 DEF WorkerThreadNext

\* However run_worker ends, its report is one that validate_report_shape takes and that the
\* run expects of it, and what the report says of processes, directories, the workspace and
\* the evidence is so.
THEOREM WorkerReportIsEarned == WorkerThreadSpec => []WorkerReportEarned
<1>1. WorkerInit => WorkerInv BY InitWorkerInv
<1>2. WorkerInv /\ [WorkerThreadNext]_workerVars => WorkerInv' BY NextWorkerInv
<1>3. WorkerInv => WorkerReportEarned OBVIOUS
<1> QED BY <1>1, <1>2, <1>3, PTL DEF WorkerThreadSpec

-----------------------------------------------------------------------------
\* MergeGate.  What GitHub knows of the runs, and the locals of the relay.
Listed ==
  [run : Nat, attempt : Nat, started : Starts, status : {"running", "success", "unusable"}]
Known == [run : Nat, attempt : Nat, started : Nat]
Relays ==
  [at : Requests \cup {"judge", "ended"}, list : Seq(Listed), total : Nat, page : Nat \ {0},
   epoch : Known, seen : {"success", "pending", "failure"}, stable : Known,
   result : {"none", "passed", "refused"}]

RunsKept ==
  /\ runs \in Seq(RunStates)
  /\ \A r \in DOMAIN runs : Len(runs[r].markers) > 0

\* An item of the list tells what its run once was.
Glimpsed(i) ==
  /\ i.run \in DOMAIN runs /\ i.attempt \in 1 .. Attempt(i.run)
  /\ i.attempt = Attempt(i.run) =>
       /\ i.started = runs[i.run].started
       /\ i.status = "success" => runs[i.run].status # "running"

Listing ==
  /\ gate.at \notin {"runs", "runs_again"} => gate.list = <<>>
  /\ \A n \in DOMAIN gate.list : Glimpsed(gate.list[n])

\* The epoch was once found ended with success, and then its marker too.
Met(e) ==
  /\ e.run \in DOMAIN runs /\ e.attempt \in 1 .. Attempt(e.run)
  /\ e.attempt = Attempt(e.run) =>
       e.started = runs[e.run].started /\ runs[e.run].status # "running"

Marked(e) == runs[e.run].markers[e.attempt] = "success"

EpochFound ==
  /\ gate.at \in {"jobs", "check", "pull_again", "runs_again"} => Met(gate.epoch)
  /\ gate.at \in {"check", "pull_again", "runs_again"} => Marked(gate.epoch)

\* An epoch that was over, or was not the newest, before the list was begun, cannot be
\* selected from it.
GoneBy(e) ==
  /\ Attempt(e.run) > e.attempt \/ runs[e.run].status = "unusable"
  /\ \A n \in DOMAIN gate.list :
       gate.list[n].run = e.run =>
         gate.list[n].attempt > e.attempt \/ gate.list[n].status = "unusable"

Outrun(e) ==
  \E q \in DOMAIN runs :
    /\ runs[q].started > e.started
    /\ \A n \in DOMAIN gate.list : gate.list[n].run = q => gate.list[n].started > e.started

Vouched ==
  gate.at = "runs_again" =>
    gate.epoch \in shown.now \/ GoneBy(gate.epoch) \/ Outrun(gate.epoch)

\* What the observations that count were good for.
Remembrance ==
  /\ \A e \in shown.now \cup shown.before : e.run # 0
  /\ gate.result # "none" => gate.at = "ended"
  /\ gate.at = "judge" /\ gate.seen = "success" => gate.epoch \in shown.now
  /\ gate.stable # NoEpoch =>
       /\ gate.at \in {"pull", "runs", "jobs", "check", "pull_again"} =>
            gate.stable \in shown.now
       /\ gate.at = "runs_again" \/ (gate.at = "judge" /\ gate.seen = "success") =>
            gate.stable \in shown.before

GateFields == gate \in Relays /\ RunsKept

GateInv == GateFields /\ Listing /\ EpochFound /\ Vouched /\ Remembrance /\ GateIsEarned

LEMMA InitGateInv == MergeGateInit => GateInv
<1> SUFFICES ASSUME MergeGateInit PROVE GateInv OBVIOUS
<1>1. GateFields BY DEF MergeGateInit, GateFields, Relays, RunsKept, Known, NoEpoch, Requests
<1>2. Listing /\ EpochFound /\ Vouched BY DEF MergeGateInit, Listing, EpochFound, Vouched
<1>3. Remembrance /\ GateIsEarned BY DEF MergeGateInit, Remembrance, GateIsEarned, NoEpoch
<1> QED BY <1>1, <1>2, <1>3 DEF GateInv

LEMMA GreatestExists ==
  ASSUME NEW N \in Nat, NEW S \in SUBSET (0 .. N), S # {}
  PROVE  Max(S) \in S /\ \A x \in S : x <= Max(S)
<1> DEFINE T == {n \in Nat : N - n \in S}
<1>1. T \in SUBSET Nat /\ T # {}
  <2>1. PICK x \in S : TRUE OBVIOUS
  <2>2. N - x \in T BY <2>1
  <2> QED BY <2>2
<1>2. PICK g \in T : \A h \in T : ~ (<<h, g>> \in OpToRel(<, Nat))
  BY <1>1, NatLessThanWellFounded, WFMin
<1>3. \A h \in T : ~ (h < g) BY <1>2 DEF OpToRel
<1>4. N - g \in S OBVIOUS
<1>5. ASSUME NEW x \in S PROVE N - g >= x
  <2>1. N - x \in T OBVIOUS
  <2>2. ~ (N - x < g) /\ g \in Nat BY <1>3, <2>1
  <2> QED BY <2>2
<1>6. \E x \in S : \A y \in S : x >= y BY <1>4, <1>5
<1>7. Max(S) \in S /\ \A y \in S : Max(S) >= y BY <1>6 DEF Max
<1>8. Max(S) \in 0 .. N BY <1>7
<1> QED BY <1>7, <1>8

\* A start is later than all before it.
LEMMA NextStartIsLast ==
  ASSUME RunsKept
  PROVE  /\ NextStart \in Nat \ {0}
         /\ \A r \in DOMAIN runs : runs[r].started \in Nat /\ runs[r].started < NextStart
<1> DEFINE S == {0} \cup {runs[r].started : r \in DOMAIN runs}
<1>1. \A r \in DOMAIN runs : runs[r].started \in 0 .. MaxStarts
  <2> SUFFICES ASSUME NEW r \in DOMAIN runs PROVE runs[r].started \in 0 .. MaxStarts OBVIOUS
  <2>1. runs[r] \in RunStates BY DEF RunsKept
  <2> QED BY <2>1, MergeGateAssumption DEF RunStates, Starts
<1>2. S \in SUBSET (0 .. MaxStarts) /\ S # {} /\ MaxStarts \in Nat BY <1>1, MergeGateAssumption
<1>3. Max(S) \in S /\ \A x \in S : x <= Max(S) BY <1>2, GreatestExists
<1>4. Max(S) \in Nat /\ NextStart = 1 + Max(S) BY <1>2, <1>3 DEF NextStart
<1>5. \A r \in DOMAIN runs : runs[r].started \in S OBVIOUS
<1> HIDE DEF S
<1>6. \A r \in DOMAIN runs : runs[r].started <= Max(S) BY <1>3, <1>5
<1> QED BY <1>1, <1>4, <1>6

\* What GitHub and those who work on the pull request can do to the runs.
RunsGrow ==
  /\ RunsKept'
  /\ DOMAIN runs \subseteq DOMAIN runs'
  /\ \A r \in DOMAIN runs :
       /\ Attempt(r)' >= Attempt(r)
       /\ runs'[r].started >= runs[r].started
       /\ Attempt(r)' = Attempt(r) =>
            /\ runs'[r].started = runs[r].started
            /\ runs[r].status # "running" => runs'[r].status # "running"
            /\ runs[r].status = "unusable" => runs'[r].status = "unusable"
       /\ \A a \in 1 .. Attempt(r) :
            /\ runs[r].markers[a] = "success"
            /\ a = Attempt(r) => runs[r].status # "running"
            => runs'[r].markers[a] = "success"

LEMMA RunFacts ==
  ASSUME RunsKept, NEW r \in DOMAIN runs
  PROVE  /\ runs[r] \in RunStates /\ runs[r].started \in Nat /\ runs[r].started <= MaxStarts
         /\ runs[r].status \in {"running", "success", "unusable"}
         /\ runs[r].markers \in Seq(Markers) /\ Attempt(r) = Len(runs[r].markers)
         /\ Attempt(r) \in Nat \ {0}
<1>1. runs[r] \in RunStates BY DEF RunsKept
<1> QED BY <1>1 DEF RunsKept, RunStates, Starts, Attempt

LEMMA RunFactsAfter ==
  ASSUME RunsKept', NEW r \in DOMAIN runs'
  PROVE  runs'[r] \in RunStates /\ runs'[r].started \in Nat
<1>1. runs'[r] \in RunStates BY DEF RunsKept
<1> QED BY <1>1 DEF RunStates, Starts

LEMMA SameRunsKept ==
  ASSUME RunsKept, runs' = runs
  PROVE  RunsKept'
BY DEF RunsKept

LEMMA NotZero ==
  ASSUME NEW n \in Nat, NEW m \in 1 .. n
  PROVE  m # 0
OBVIOUS

LEMMA ItemOf ==
  ASSUME NEW S, NEW s \in Seq(S), NEW n \in DOMAIN s
  PROVE  s[n] \in S /\ n \in 1 .. Len(s) /\ Len(s) \in Nat
OBVIOUS

LEMMA ItemChanged ==
  ASSUME NEW S, NEW s \in Seq(S), NEW n \in 1 .. Len(s), NEW v \in S
  PROVE  /\ [s EXCEPT ![n] = v] \in Seq(S)
         /\ Len([s EXCEPT ![n] = v]) = Len(s)
         /\ \A m \in 1 .. Len(s) : m # n => [s EXCEPT ![n] = v][m] = s[m]
OBVIOUS

LEMMA EmptyListing ==
  ASSUME gate'.list = <<>>
  PROVE  Listing'
BY DEF Listing

LEMMA SameRunsGrow ==
  ASSUME RunsKept, runs' = runs
  PROVE  RunsGrow
<1>1. \A r \in DOMAIN runs : Attempt(r)' = Attempt(r) BY DEF Attempt
<1>2. \A r \in DOMAIN runs : Attempt(r) \in Nat /\ runs[r].started \in Nat BY RunFacts
<1> QED BY <1>1, <1>2 DEF RunsGrow, RunsKept

\* One run becomes rec.
LEMMA OneRunGrows ==
  ASSUME RunsKept, NEW r \in DOMAIN runs, NEW rec \in RunStates,
         runs' = [runs EXCEPT ![r] = rec],
         rec.started >= runs[r].started,
         Len(rec.markers) >= Attempt(r),
         Len(rec.markers) = Attempt(r) =>
           /\ rec.started = runs[r].started
           /\ runs[r].status # "running" => rec.status # "running"
           /\ runs[r].status = "unusable" => rec.status = "unusable",
         \A a \in 1 .. Attempt(r) :
           /\ runs[r].markers[a] = "success"
           /\ a = Attempt(r) => runs[r].status # "running"
           => rec.markers[a] = "success"
  PROVE  RunsGrow
<1>1. /\ runs' \in Seq(RunStates) /\ DOMAIN runs' = DOMAIN runs /\ runs'[r] = rec
      /\ \A q \in DOMAIN runs : q # r => runs'[q] = runs[q]
  BY DEF RunsKept
<1>2. Attempt(r)' = Len(rec.markers) /\ \A q \in DOMAIN runs : q # r => Attempt(q)' = Attempt(q)
  BY <1>1 DEF Attempt
<1>3. \A q \in DOMAIN runs : Attempt(q) \in Nat \ {0} /\ runs[q].started \in Nat
                           /\ runs[q].started <= MaxStarts /\ Len(runs[q].markers) = Attempt(q)
  BY RunFacts
<1>4. RunsKept'
  <2>1. ASSUME NEW q \in DOMAIN runs'
        PROVE  Len(runs'[q].markers) > 0
    <3>1. CASE q = r
      <4>1. Len(rec.markers) \in Nat BY DEF RunStates
      <4> QED BY <3>1, <4>1, <1>1, <1>3
    <3>2. CASE q # r BY <3>2, <1>1, <1>3
    <3> QED BY <3>1, <3>2
  <2> QED BY <1>1, <2>1 DEF RunsKept
<1>5. ASSUME NEW q \in DOMAIN runs
      PROVE  /\ Attempt(q)' >= Attempt(q)
             /\ runs'[q].started >= runs[q].started
             /\ Attempt(q)' = Attempt(q) =>
                  /\ runs'[q].started = runs[q].started
                  /\ runs[q].status # "running" => runs'[q].status # "running"
                  /\ runs[q].status = "unusable" => runs'[q].status = "unusable"
             /\ \A a \in 1 .. Attempt(q) :
                  /\ runs[q].markers[a] = "success"
                  /\ a = Attempt(q) => runs[q].status # "running"
                  => runs'[q].markers[a] = "success"
  <2>1. CASE q = r BY <2>1, <1>1, <1>2
  <2>2. CASE q # r BY <2>2, <1>1, <1>2, <1>3
  <2> QED BY <2>1, <2>2
<1> QED BY <1>1, <1>4, <1>5 DEF RunsGrow

LEMMA GitHubGrows ==
  ASSUME RunsKept, GitHubStep
  PROVE  RunsGrow /\ gate' = gate
<1>1. CASE PullMoves BY <1>1, SameRunsGrow DEF PullMoves
<1>2. CASE RunStarts
  <2> DEFINE rec == [started |-> NextStart, status |-> "running", markers |-> <<"absent">>]
  <2>1. rec \in RunStates /\ Len(rec.markers) > 0
    <3>1. NextStart \in Starts
      BY <1>2, NextStartIsLast, MergeGateAssumption DEF RunStarts, Starts
    <3>2. <<"absent">> \in Seq(Markers) /\ Len(<<"absent">>) = 1 BY DEF Markers
    <3> QED BY <3>1, <3>2 DEF RunStates
  <2>2. runs' = Append(runs, rec) /\ gate' = gate /\ runs \in Seq(RunStates)
    BY <1>2 DEF RunStarts, RunsKept
  <2> HIDE DEF rec
  <2>3. /\ runs' \in Seq(RunStates) /\ DOMAIN runs' = DOMAIN runs \cup {Len(runs) + 1}
        /\ \A q \in DOMAIN runs : runs'[q] = runs[q] /\ runs'[Len(runs) + 1] = rec
    BY <2>1, <2>2
  <2>4. runs'[Len(runs) + 1] = rec BY <2>1, <2>2
  <2>5. \A q \in DOMAIN runs : /\ runs'[q] = runs[q] /\ Attempt(q)' = Attempt(q)
                             /\ Attempt(q) \in Nat \ {0} /\ runs[q].started \in Nat
                             /\ runs[q].started <= MaxStarts /\ Len(runs[q].markers) = Attempt(q)
    BY <2>3, RunFacts DEF Attempt
  <2>6. RunsKept' BY <2>1, <2>3, <2>4, <2>5 DEF RunsKept
  <2>7. DOMAIN runs \subseteq DOMAIN runs' BY <2>3
  <2> QED BY <2>2, <2>5, <2>6, <2>7 DEF RunsGrow
<1>3. ASSUME NEW r \in DOMAIN runs, RunsAgain(r) PROVE RunsGrow /\ gate' = gate
  <2> DEFINE rec == [started |-> NextStart, status |-> "running",
                     markers |-> Append(runs[r].markers, "absent")]
  <2>a. runs[r].markers \in Seq(Markers) /\ Attempt(r) = Len(runs[r].markers) BY RunFacts
  <2>b. "absent" \in Markers BY DEF Markers
  <2>1. rec \in RunStates /\ rec.started >= runs[r].started
    <3>1. NextStart \in Starts /\ NextStart >= runs[r].started
      BY <1>3, NextStartIsLast, MergeGateAssumption DEF RunsAgain, Starts
    <3>2. Append(runs[r].markers, "absent") \in Seq(Markers) BY <2>a, <2>b
    <3> QED BY <3>1, <3>2 DEF RunStates
  <2>2. Len(rec.markers) = Attempt(r) + 1 /\ Attempt(r) \in Nat BY <2>a, <2>b
  <2>3. \A a \in 1 .. Attempt(r) : rec.markers[a] = runs[r].markers[a] BY <2>a, <2>b
  <2>4. runs' = [runs EXCEPT ![r] = rec] /\ gate' = gate BY <1>3 DEF RunsAgain
  <2> HIDE DEF rec
  <2> QED
    <3>1. ~ (Len(rec.markers) = Attempt(r)) /\ Len(rec.markers) >= Attempt(r) BY <2>2
    <3> QED BY <2>1, <2>3, <2>4, <3>1, OneRunGrows
<1>4. ASSUME NEW r \in DOMAIN runs, RunEnds(r) PROVE RunsGrow /\ gate' = gate
  <2>1. runs[r].status = "running" /\ gate' = gate BY <1>4 DEF RunEnds
  <2>2. CASE runs' = [runs EXCEPT ![r].status = "unusable"]
    <3> DEFINE rec == [runs[r] EXCEPT !.status = "unusable"]
    <3>1. /\ rec \in RunStates /\ rec.started = runs[r].started
          /\ rec.markers = runs[r].markers /\ rec.status = "unusable"
      BY RunFacts DEF RunStates
    <3>2. runs' = [runs EXCEPT ![r] = rec] BY <2>2
    <3> HIDE DEF rec
    <3>3. rec.started >= runs[r].started /\ Len(rec.markers) >= Attempt(r) BY <3>1, RunFacts
    <3>4. runs[r].status # "unusable" /\ runs[r].status = "running" BY <2>1
    <3> QED
      <4>1. \A a \in 1 .. Attempt(r) : rec.markers[a] = runs[r].markers[a] BY <3>1
      <4> QED BY <2>1, <3>1, <3>2, <3>3, <3>4, <4>1, OneRunGrows
  <2>3. ASSUME NEW marker \in Markers,
               runs' = [runs EXCEPT ![r].status = "success", ![r].markers[Attempt(r)] = marker]
        PROVE  RunsGrow
    <3> DEFINE rec == [runs[r] EXCEPT !.status = "success", !.markers[Attempt(r)] = marker]
    <3>1. /\ rec \in RunStates /\ rec.started = runs[r].started /\ rec.status = "success"
          /\ rec.markers = [runs[r].markers EXCEPT ![Attempt(r)] = marker]
      <4>1. /\ runs[r] \in RunStates /\ runs[r].markers \in Seq(Markers)
            /\ Attempt(r) = Len(runs[r].markers)
        BY RunFacts
      <4>2. [runs[r].markers EXCEPT ![Attempt(r)] = marker] \in Seq(Markers)
        BY <2>3, <4>1, RunFacts, ItemChanged
      <4> QED BY <4>1, <4>2 DEF RunStates
    <3>2. /\ Len(rec.markers) = Attempt(r)
          /\ \A a \in 1 .. Attempt(r) : a # Attempt(r) => rec.markers[a] = runs[r].markers[a]
      BY <3>1, RunFacts
    <3>3. runs' = [runs EXCEPT ![r] = rec] BY <2>3
    <3> HIDE DEF rec
    <3>4. rec.started >= runs[r].started /\ Len(rec.markers) >= Attempt(r)
      BY <3>1, <3>2, RunFacts
    <3>5. \A a \in 1 .. Attempt(r) :
            (runs[r].markers[a] = "success" /\ (a = Attempt(r) => runs[r].status # "running"))
            => rec.markers[a] = "success"
      BY <2>1, <3>2
    <3> QED BY <2>1, <3>1, <3>3, <3>4, <3>5, OneRunGrows
  <2> QED BY <1>4, <2>1, <2>2, <2>3 DEF RunEnds
<1>5. ASSUME NEW r \in DOMAIN runs, MarkerEnds(r) PROVE RunsGrow /\ gate' = gate
  <2>1. PICK marker \in {"success", "absent"} :
          runs' = [runs EXCEPT ![r].markers[Attempt(r)] = marker]
    BY <1>5 DEF MarkerEnds
  <2>2. runs[r].markers[Attempt(r)] = "pending" /\ gate' = gate BY <1>5 DEF MarkerEnds
  <2> DEFINE rec == [runs[r] EXCEPT !.markers[Attempt(r)] = marker]
  <2>3. /\ rec \in RunStates /\ rec.started = runs[r].started /\ rec.status = runs[r].status
        /\ rec.markers = [runs[r].markers EXCEPT ![Attempt(r)] = marker]
    BY RunFacts DEF RunStates, Markers
  <2>4. /\ Len(rec.markers) = Attempt(r)
        /\ \A a \in 1 .. Attempt(r) : a # Attempt(r) => rec.markers[a] = runs[r].markers[a]
    BY <2>3, RunFacts
  <2>5. runs' = [runs EXCEPT ![r] = rec] BY <2>1
  <2> HIDE DEF rec
  <2>6. rec.started >= runs[r].started /\ Len(rec.markers) >= Attempt(r) BY <2>3, <2>4, RunFacts
  <2>7. \A a \in 1 .. Attempt(r) :
          (runs[r].markers[a] = "success" /\ (a = Attempt(r) => runs[r].status # "running"))
          => rec.markers[a] = "success"
    <3>1. ASSUME NEW a \in 1 .. Attempt(r), runs[r].markers[a] = "success"
          PROVE  rec.markers[a] = "success"
      <4>1. a # Attempt(r) BY <2>2, <3>1
      <4> QED BY <2>4, <3>1, <4>1
    <3> QED BY <3>1
  <2> QED BY <2>2, <2>3, <2>5, <2>6, <2>7, OneRunGrows
<1>6. ASSUME NEW r \in DOMAIN runs, GrowsOld(r) PROVE RunsGrow /\ gate' = gate
  <2> DEFINE rec == [runs[r] EXCEPT !.status = "unusable"]
  <2>1. /\ rec \in RunStates /\ rec.started = runs[r].started
        /\ rec.markers = runs[r].markers /\ rec.status = "unusable"
    BY RunFacts DEF RunStates
  <2>2. runs' = [runs EXCEPT ![r] = rec] /\ gate' = gate BY <1>6 DEF GrowsOld
  <2> HIDE DEF rec
  <2>3. rec.started >= runs[r].started /\ Len(rec.markers) >= Attempt(r) BY <2>1, RunFacts
  <2> QED BY <2>1, <2>2, <2>3, OneRunGrows
<1> QED BY <1>1, <1>2, <1>3, <1>4, <1>5, <1>6 DEF GitHubStep

\* What was known of an epoch stays so while the runs grow.
LEMMA MetStays ==
  ASSUME RunsKept, RunsGrow, NEW e \in Known
  PROVE  /\ Met(e) => Met(e)'
         /\ Met(e) /\ Marked(e) => Marked(e)'
<1> SUFFICES ASSUME Met(e) PROVE Met(e)' /\ (Marked(e) => Marked(e)') OBVIOUS
<1>1. /\ e.run \in DOMAIN runs /\ e.run \in DOMAIN runs' /\ e.attempt \in 1 .. Attempt(e.run)
      /\ e.attempt = Attempt(e.run) =>
           e.started = runs[e.run].started /\ runs[e.run].status # "running"
  BY DEF Met, RunsGrow
<1>2. Attempt(e.run) \in Nat BY <1>1, RunFacts
<1>3. Attempt(e.run)' \in Nat BY <1>1, <1>2 DEF RunsGrow, RunsKept, RunStates, Attempt
<1>4. /\ Attempt(e.run)' >= Attempt(e.run)
      /\ Attempt(e.run)' = Attempt(e.run) =>
           /\ runs'[e.run].started = runs[e.run].started
           /\ runs[e.run].status # "running" => runs'[e.run].status # "running"
  BY <1>1 DEF RunsGrow
<1>5. Met(e)' BY <1>1, <1>2, <1>3, <1>4 DEF Met
<1>6. Marked(e) => Marked(e)' BY <1>1 DEF Marked, RunsGrow
<1> QED BY <1>5, <1>6

LEMMA GlimpsedStays ==
  ASSUME RunsKept, RunsGrow, NEW i \in Listed, Glimpsed(i)
  PROVE  Glimpsed(i)'
<1>1. /\ i.run \in DOMAIN runs /\ i.run \in DOMAIN runs' /\ i.attempt \in 1 .. Attempt(i.run)
  BY DEF Glimpsed, RunsGrow
<1>2. Attempt(i.run) \in Nat BY <1>1, RunFacts
<1>3. Attempt(i.run)' \in Nat BY <1>1, <1>2 DEF RunsGrow, RunsKept, RunStates, Attempt
<1>4. /\ Attempt(i.run)' >= Attempt(i.run)
      /\ Attempt(i.run)' = Attempt(i.run) =>
           /\ runs'[i.run].started = runs[i.run].started
           /\ runs[i.run].status # "running" => runs'[i.run].status # "running"
  BY <1>1 DEF RunsGrow
<1> QED BY <1>1, <1>2, <1>3, <1>4 DEF Glimpsed

LEMMA SpoiltStays ==
  ASSUME RunsKept, RunsGrow, NEW e \in Known, Met(e), gate' = gate
  PROVE  /\ GoneBy(e) => GoneBy(e)'
         /\ Outrun(e) => Outrun(e)'
<1>1. /\ e.run \in DOMAIN runs /\ e.attempt \in 1 .. Attempt(e.run)
      /\ Attempt(e.run) \in Nat /\ e.attempt \in Nat
  BY RunFacts DEF Met
<1>2. e.run \in DOMAIN runs' /\ RunsKept' BY <1>1 DEF RunsGrow
<1>3. Attempt(e.run)' \in Nat BY <1>2 DEF RunsKept, RunStates, Attempt
<1>4. /\ Attempt(e.run)' >= Attempt(e.run)
      /\ Attempt(e.run)' = Attempt(e.run) =>
           (runs[e.run].status = "unusable" => runs'[e.run].status = "unusable")
  BY <1>1 DEF RunsGrow
<1>5. ASSUME GoneBy(e) PROVE GoneBy(e)'
  <2>1. Attempt(e.run)' > e.attempt \/ runs'[e.run].status = "unusable"
    BY <1>1, <1>3, <1>4, <1>5 DEF GoneBy
  <2> QED BY <1>5, <2>1 DEF GoneBy
<1>6. ASSUME Outrun(e) PROVE Outrun(e)'
  <2>1. PICK q \in DOMAIN runs :
          /\ runs[q].started > e.started
          /\ \A n \in DOMAIN gate.list : gate.list[n].run = q => gate.list[n].started > e.started
    BY <1>6 DEF Outrun
  <2>2. q \in DOMAIN runs' /\ runs'[q].started >= runs[q].started BY DEF RunsGrow
  <2>3. runs[q].started \in Nat /\ runs'[q].started \in Nat /\ e.started \in Nat
    BY <2>2, <1>2, RunFacts, RunFactsAfter DEF Known
  <2>4. runs'[q].started > e.started BY <2>1, <2>2, <2>3
  <2> QED BY <2>1, <2>2, <2>4 DEF Outrun
<1> QED BY <1>5, <1>6

\* Whatever happens outside leaves the relay as it was.
LEMMA GitHubKeepsGateInv ==
  ASSUME GateInv, GitHubStep, Remembered
  PROVE  GateInv'
<1>1. RunsKept /\ gate \in Relays /\ gate.epoch \in Known BY DEF GateInv, GateFields, Relays
<1>2. RunsGrow /\ gate' = gate /\ RunsKept' BY <1>1, GitHubGrows DEF RunsGrow
<1>3. shown' = shown BY <1>2 DEF Remembered
<1>4. GateFields' BY <1>1, <1>2 DEF GateFields
<1>5. Listing'
  <2>1. ASSUME NEW n \in DOMAIN gate.list PROVE Glimpsed(gate.list[n])'
    <3>1. gate.list[n] \in Listed /\ Glimpsed(gate.list[n])
      BY <1>1, <2>1, ItemOf DEF GateInv, Listing, Relays
    <3>2. ASSUME NEW i \in Listed, Glimpsed(i) PROVE Glimpsed(i)'
      BY <1>1, <1>2, <3>2, GlimpsedStays
    <3>3. PICK i \in Listed : i = gate.list[n] BY <3>1
    <3>4. Glimpsed(i)' BY <3>1, <3>2, <3>3
    <3> QED BY <3>3, <3>4, <1>2 DEF Glimpsed
  <2> QED BY <1>2, <2>1 DEF GateInv, Listing
<1>6. PICK e \in Known : e = gate.epoch BY <1>1
<1>7. EpochFound' BY <1>1, <1>2, <1>6, MetStays DEF GateInv, EpochFound, Met, Marked
<1>8. Vouched'
  <2> SUFFICES ASSUME gate.at = "runs_again"
               PROVE  gate.epoch \in shown.now \/ GoneBy(gate.epoch)' \/ Outrun(gate.epoch)'
    BY <1>2, <1>3 DEF Vouched
  <2>1. Met(e) BY <1>6 DEF GateInv, EpochFound
  <2>2. (GoneBy(e) => GoneBy(e)') /\ (Outrun(e) => Outrun(e)') BY <1>1, <1>2, <2>1, SpoiltStays
  <2>3. (GoneBy(e)' <=> GoneBy(gate.epoch)') /\ (Outrun(e)' <=> Outrun(gate.epoch)')
    BY <1>2, <1>6 DEF GoneBy, Outrun
  <2> QED BY <1>6, <2>2, <2>3 DEF GateInv, Vouched
<1>9. Remembrance' /\ GateIsEarned' BY <1>2, <1>3 DEF GateInv, Remembrance, GateIsEarned
<1> QED BY <1>4, <1>5, <1>7, <1>8, <1>9 DEF GateInv

\* An observation that does not succeed is not remembered.
LEMMA SeenInVain ==
  ASSUME GateInv, gate.at \in Requests, NEW seen \in {"pending", "failure"}, Sees(seen),
         UNCHANGED runs, Remembered
  PROVE  GateInv'
<1>1. gate' = [gate EXCEPT !.at = "judge", !.seen = seen, !.list = <<>>, !.total = 0,
                 !.page = 1, !.epoch = NoEpoch]
  BY DEF Sees
<1>2. gate \in Relays /\ RunsKept BY DEF GateInv, GateFields
<1>3. /\ gate'.at = "judge" /\ gate'.seen = seen /\ gate'.list = <<>> /\ gate'.epoch = NoEpoch
      /\ gate'.stable = gate.stable /\ gate'.result = gate.result
  BY <1>1, <1>2 DEF Relays
<1>4. shown' = shown BY <1>3 DEF Remembered
<1>5. gate' \in Relays
  <2>1. <<>> \in Seq(Listed) /\ NoEpoch \in Known /\ 0 \in Nat /\ 1 \in Nat \ {0}
    BY DEF Known, NoEpoch
  <2> QED BY <1>1, <1>2, <2>1 DEF Relays
<1>6. GateFields' BY <1>2, <1>5, SameRunsKept DEF GateFields
<1>7. Listing' /\ EpochFound' /\ Vouched' BY <1>3 DEF Listing, EpochFound, Vouched
<1>8. gate.result = "none" BY <1>2 DEF GateInv, Remembrance, Relays, Requests
<1>9. Remembrance' /\ GateIsEarned' BY <1>3, <1>4, <1>8 DEF GateInv, Remembrance, GateIsEarned
<1> QED BY <1>6, <1>7, <1>9 DEF GateInv

LEMMA ReadPullKeeps ==
  ASSUME GateInv, ReadPull("pull", "runs"), Remembered
  PROVE  GateInv'
<1>1. gate.at = "pull" /\ UNCHANGED <<pull, runs>> /\ gate.at \in Requests
  BY DEF ReadPull, Asks, Requests
<1>2. CASE ~pull.ready BY <1>1, <1>2, SeenInVain DEF ReadPull
<1>3. CASE pull.ready
  <2>1. gate' = [gate EXCEPT !.at = "runs"] BY <1>3 DEF ReadPull
  <2>2. gate \in Relays /\ RunsKept BY DEF GateInv, GateFields
  <2>3. /\ gate'.at = "runs" /\ gate'.list = gate.list /\ gate'.epoch = gate.epoch
        /\ gate'.stable = gate.stable /\ gate'.result = gate.result /\ gate' \in Relays
    BY <2>1, <2>2 DEF Relays, Requests
  <2>4. shown' = shown BY <1>1, <2>3 DEF Remembered
  <2>5. gate'.list = <<>> BY <1>1, <2>3 DEF GateInv, Listing
  <2>6. GateFields' /\ Listing' /\ EpochFound' /\ Vouched'
    BY <1>1, <2>2, <2>3, <2>5, SameRunsKept DEF GateFields, Listing, EpochFound, Vouched
  <2>7. Remembrance' /\ GateIsEarned' BY <1>1, <2>3, <2>4 DEF GateInv, Remembrance, GateIsEarned
  <2> QED BY <2>6, <2>7 DEF GateInv
<1> QED BY <1>2, <1>3

LEMMA ReadJobsKeeps ==
  ASSUME GateInv, ReadJobs, Remembered
  PROVE  GateInv'
<1>1. gate.at = "jobs" /\ UNCHANGED <<pull, runs>> /\ gate.at \in Requests
  BY DEF ReadJobs, Asks, Requests
<1> DEFINE marker == runs[gate.epoch.run].markers[gate.epoch.attempt]
<1>2. CASE marker # "success"
  <2>1. \E seen \in {"pending", "failure"} : Sees(seen) BY <1>2 DEF ReadJobs
  <2> QED BY <1>1, <2>1, SeenInVain
<1>3. CASE marker = "success"
  <2>1. gate' = [gate EXCEPT !.at = "check"] BY <1>3 DEF ReadJobs
  <2>2. gate \in Relays /\ RunsKept BY DEF GateInv, GateFields
  <2>3. /\ gate'.at = "check" /\ gate'.list = gate.list /\ gate'.epoch = gate.epoch
        /\ gate'.stable = gate.stable /\ gate'.result = gate.result /\ gate' \in Relays
    BY <2>1, <2>2 DEF Relays, Requests
  <2>4. shown' = shown BY <1>1, <2>3 DEF Remembered
  <2>5. gate'.list = <<>> BY <1>1, <2>3 DEF GateInv, Listing
  <2>6. GateFields' /\ Listing' /\ Vouched'
    <3>1. GateFields' BY <1>1, <2>2, <2>3, SameRunsKept DEF GateFields
    <3> QED BY <2>3, <2>5, <3>1, EmptyListing DEF Vouched
  <2>7. EpochFound' BY <1>1, <1>3, <2>3 DEF GateInv, EpochFound, Met, Marked, Attempt
  <2>8. Remembrance' /\ GateIsEarned' BY <1>1, <2>3, <2>4 DEF GateInv, Remembrance, GateIsEarned
  <2> QED BY <2>6, <2>7, <2>8 DEF GateInv
<1> QED BY <1>2, <1>3

LEMMA ReadCheckKeeps ==
  ASSUME GateInv, ReadCheck, Remembered
  PROVE  GateInv'
<1>1. gate.at = "check" /\ UNCHANGED <<pull, runs>> /\ gate.at \in Requests
  BY DEF ReadCheck, Asks, Requests
<1>2. CASE Sees("failure") BY <1>1, <1>2, SeenInVain
<1>3. CASE gate' = [gate EXCEPT !.at = "pull_again"]
  <2>2. gate \in Relays /\ RunsKept BY DEF GateInv, GateFields
  <2>3. /\ gate'.at = "pull_again" /\ gate'.list = gate.list /\ gate'.epoch = gate.epoch
        /\ gate'.stable = gate.stable /\ gate'.result = gate.result /\ gate' \in Relays
    BY <1>3, <2>2 DEF Relays, Requests
  <2>4. shown' = shown BY <1>1, <2>3 DEF Remembered
  <2>5. gate'.list = <<>> BY <1>1, <2>3 DEF GateInv, Listing
  <2>6. GateFields' /\ Listing' /\ Vouched'
    <3>1. GateFields' BY <1>1, <2>2, <2>3, SameRunsKept DEF GateFields
    <3> QED BY <2>3, <2>5, <3>1, EmptyListing DEF Vouched
  <2>7. EpochFound' BY <1>1, <2>3 DEF GateInv, EpochFound, Met, Marked, Attempt
  <2>8. Remembrance' /\ GateIsEarned' BY <1>1, <2>3, <2>4 DEF GateInv, Remembrance, GateIsEarned
  <2> QED BY <2>6, <2>7, <2>8 DEF GateInv
<1> QED BY <1>2, <1>3 DEF ReadCheck

\* An epoch that was found is good now, or over, or no longer the newest.
LEMMA GoodOrSpoilt ==
  ASSUME RunsKept, NEW e \in Known, Met(e), Marked(e), pull.ready, gate'.list = <<>>,
         UNCHANGED runs
  PROVE  e \in GoodEpochs \/ GoneBy(e)' \/ Outrun(e)'
<1>1. e.run \in DOMAIN runs /\ e.attempt \in 1 .. Attempt(e.run) BY DEF Met
<1>2. /\ runs[e.run].status \in {"running", "success", "unusable"}
      /\ Attempt(e.run) \in Nat /\ Attempt(e.run)' = Attempt(e.run)
      /\ \A q \in DOMAIN runs : runs[q].started \in Nat
  BY <1>1, RunFacts DEF Attempt
<1>3. CASE Attempt(e.run) # e.attempt \/ runs[e.run].status = "unusable"
  BY <1>1, <1>2, <1>3 DEF GoneBy
<1>4. CASE Attempt(e.run) = e.attempt /\ runs[e.run].status # "unusable"
  <2>1. e.started = runs[e.run].started /\ runs[e.run].status = "success" BY <1>2, <1>4 DEF Met
  <2>2. CASE \E q \in DOMAIN runs : ~ (runs[q].started <= runs[e.run].started)
    <3>1. PICK q \in DOMAIN runs : runs[q].started > e.started BY <1>1, <1>2, <2>1, <2>2
    <3> QED BY <3>1 DEF Outrun
  <2>3. CASE \A q \in DOMAIN runs : runs[q].started <= runs[e.run].started
    <3>1. e = [run |-> e.run, attempt |-> Attempt(e.run), started |-> runs[e.run].started]
      BY <1>4, <2>1 DEF Known
    <3>2. runs[e.run].markers[Attempt(e.run)] = "success" BY <1>4 DEF Marked
    <3> QED BY <1>1, <2>1, <2>3, <3>1, <3>2 DEF GoodEpochs
  <2> QED BY <2>2, <2>3
<1> QED BY <1>3, <1>4

LEMMA ReadPullAgainKeeps ==
  ASSUME GateInv, ReadPull("pull_again", "runs_again"), Remembered
  PROVE  GateInv'
<1>1. gate.at = "pull_again" /\ UNCHANGED <<pull, runs>> /\ gate.at \in Requests
  BY DEF ReadPull, Asks, Requests
<1>2. CASE ~pull.ready BY <1>1, <1>2, SeenInVain DEF ReadPull
<1>3. CASE pull.ready
  <2>1. gate' = [gate EXCEPT !.at = "runs_again"] BY <1>3 DEF ReadPull
  <2>2. gate \in Relays /\ RunsKept BY DEF GateInv, GateFields
  <2>3. /\ gate'.at = "runs_again" /\ gate'.list = gate.list /\ gate'.epoch = gate.epoch
        /\ gate'.stable = gate.stable /\ gate'.result = gate.result /\ gate' \in Relays
    BY <2>1, <2>2 DEF Relays, Requests
  <2>4. shown' = [now |-> GoodEpochs, before |-> shown.now] BY <1>1, <2>3 DEF Remembered
  <2>5. gate'.list = <<>> BY <1>1, <2>3 DEF GateInv, Listing
  <2>6. GateFields' /\ Listing'
    <3>1. GateFields' BY <1>1, <2>2, <2>3, SameRunsKept DEF GateFields
    <3> QED BY <2>5, <3>1, EmptyListing
  <2>7. EpochFound' BY <1>1, <2>3 DEF GateInv, EpochFound, Met, Marked, Attempt
  <2>8. Vouched'
    <3>1. PICK e \in Known : e = gate.epoch BY <2>2 DEF Relays
    <3>2. Met(e) /\ Marked(e) BY <1>1, <3>1 DEF GateInv, EpochFound
    <3>3. e \in GoodEpochs \/ GoneBy(e)' \/ Outrun(e)'
      BY <1>1, <1>3, <2>2, <2>5, <3>2, GoodOrSpoilt
    <3>4. (GoneBy(e)' <=> GoneBy(gate.epoch)') /\ (Outrun(e)' <=> Outrun(gate.epoch)')
      BY <2>3, <3>1 DEF GoneBy, Outrun
    <3> QED BY <2>3, <2>4, <3>1, <3>3, <3>4 DEF Vouched
  <2>9. Remembrance' /\ GateIsEarned'
    <3>1. \A e \in GoodEpochs : e.run # 0
      <4>1. ASSUME NEW r \in DOMAIN runs PROVE r # 0
        <5>1. r \in 1 .. Len(runs) /\ Len(runs) \in Nat BY <2>2, ItemOf DEF RunsKept
        <5> QED BY <5>1, NotZero
      <4>2. ASSUME NEW e \in GoodEpochs PROVE e.run # 0
        <5>1. PICK r \in DOMAIN runs :
                e = [run |-> r, attempt |-> Attempt(r), started |-> runs[r].started]
          BY <4>2 DEF GoodEpochs
        <5> QED BY <4>1, <5>1
      <4> QED BY <4>2
    <3> QED BY <1>1, <2>3, <2>4, <3>1 DEF GateInv, Remembrance, GateIsEarned
  <2> QED BY <2>6, <2>7, <2>8, <2>9 DEF GateInv
<1> QED BY <1>2, <1>3

LEMMA RequestFailsKeeps ==
  ASSUME GateInv, RequestFails, Remembered
  PROVE  GateInv'
BY SeenInVain DEF RequestFails

LEMMA JudgeKeeps ==
  ASSUME GateInv, Judge, Remembered
  PROVE  GateInv'
<1>1. gate.at = "judge" /\ UNCHANGED <<pull, runs>> /\ gate \in Relays /\ RunsKept
  BY DEF Judge, GateInv, GateFields
<1>2. gate.list = <<>> BY <1>1 DEF GateInv, Listing
<1>3. CASE Refused
  <2>1. /\ gate'.at = "ended" /\ gate'.list = gate.list /\ gate'.epoch = gate.epoch
        /\ gate'.stable = gate.stable /\ gate'.result = "refused" /\ gate' \in Relays
    BY <1>1, <1>3 DEF Refused, Relays
  <2>2. shown' = shown BY <1>1, <2>1 DEF Remembered
  <2> QED
    <3>1. GateFields' /\ Listing' BY <1>1, <1>2, <2>1, SameRunsKept, EmptyListing DEF GateFields
    <3> QED
      BY <1>1, <2>1, <2>2, <3>1
      DEF GateInv, EpochFound, Vouched, Remembrance, GateIsEarned
<1>4. CASE gate.seen = "success" /\ gate.stable = gate.epoch
           /\ gate' = [gate EXCEPT !.at = "ended", !.result = "passed"]
  <2>1. /\ gate'.at = "ended" /\ gate'.list = gate.list /\ gate'.epoch = gate.epoch
        /\ gate'.stable = gate.stable /\ gate'.result = "passed" /\ gate' \in Relays
    BY <1>1, <1>4 DEF Relays
  <2>2. shown' = shown BY <1>1, <2>1 DEF Remembered
  <2>3. gate.epoch \in shown.now /\ gate.epoch.run # 0 BY <1>1, <1>4 DEF GateInv, Remembrance
  <2>4. gate.stable \in shown.before BY <1>1, <1>4, <2>3 DEF GateInv, Remembrance, NoEpoch
  <2> QED
    <3>1. GateFields' /\ Listing' BY <1>1, <1>2, <2>1, SameRunsKept, EmptyListing DEF GateFields
    <3> QED
      BY <1>1, <1>4, <2>1, <2>2, <2>3, <2>4, <3>1
      DEF GateInv, EpochFound, Vouched, Remembrance, GateIsEarned
<1>5. CASE gate' = [gate EXCEPT !.at = "pull", !.epoch = NoEpoch, !.stable =
                      IF gate.seen = "success" THEN gate.epoch ELSE NoEpoch]
  <2>1. /\ gate'.at = "pull" /\ gate'.list = gate.list /\ gate'.epoch = NoEpoch
        /\ gate'.stable = (IF gate.seen = "success" THEN gate.epoch ELSE NoEpoch)
        /\ gate'.result = gate.result /\ gate' \in Relays
    BY <1>1, <1>5 DEF Relays, Requests, Known, NoEpoch
  <2>2. shown' = IF gate'.stable = NoEpoch THEN [now |-> {}, before |-> {}] ELSE shown
    BY <1>1, <2>1 DEF Remembered
  <2>3. GateFields' /\ Listing' /\ EpochFound' /\ Vouched'
    <3>1. GateFields' /\ Listing' BY <1>1, <1>2, <2>1, SameRunsKept, EmptyListing DEF GateFields
    <3> QED BY <2>1, <3>1 DEF EpochFound, Vouched
  <2>4. gate'.result = "none" BY <1>1, <2>1 DEF GateInv, Remembrance, Relays
  <2>5. gate'.stable # NoEpoch => gate'.stable \in shown'.now
    BY <1>1, <2>1, <2>2 DEF GateInv, Remembrance
  <2>6. \A e \in shown'.now \cup shown'.before : e.run # 0 BY <2>2 DEF GateInv, Remembrance
  <2> QED BY <2>1, <2>3, <2>4, <2>5, <2>6 DEF GateInv, Remembrance, GateIsEarned
<1> QED BY <1>3, <1>4, <1>5 DEF Judge

\* The greater and the smaller of two.
LEMMA GreaterOfTwo ==
  ASSUME NEW a \in Int, NEW b \in Int
  PROVE  /\ Max({a, b}) \in {a, b} /\ Max({a, b}) >= a /\ Max({a, b}) >= b
         /\ Min({a, b}) \in {a, b} /\ Min({a, b}) <= a /\ Min({a, b}) <= b
<1>1. \E x \in {a, b} : \A y \in {a, b} : x >= y OBVIOUS
<1>2. \E x \in {a, b} : \A y \in {a, b} : x <= y OBVIOUS
<1>3. Max({a, b}) \in {a, b} /\ \A y \in {a, b} : Max({a, b}) >= y BY <1>1 DEF Max
<1>4. Min({a, b}) \in {a, b} /\ \A y \in {a, b} : Min({a, b}) <= y BY <1>2 DEF Min
<1> QED BY <1>3, <1>4

\* What a page tells is so at the moment.
LEMMA PageTells ==
  ASSUME RunsKept, NEW k \in Nat \ {0}
  PROVE  /\ Page(k) \in Seq(Listed)
         /\ \A n \in DOMAIN Page(k) :
              /\ Page(k)[n].run \in DOMAIN runs
              /\ Page(k)[n].attempt = Attempt(Page(k)[n].run)
              /\ Page(k)[n].started = runs[Page(k)[n].run].started
              /\ Page(k)[n].status = runs[Page(k)[n].run].status
<1> DEFINE left == Len(runs) - (k - 1) * PageSize
           size == Min({PageSize, Max({left, 0})})
           item(r) == [run |-> r, attempt |-> Attempt(r), started |-> runs[r].started,
                       status |-> runs[r].status]
<1>1. PageSize \in Nat /\ Len(runs) \in Nat /\ k - 1 \in Nat BY MergeGateAssumption DEF RunsKept
<1>2. (k - 1) * PageSize \in Nat BY <1>1
<1>3. left \in Int /\ left <= Len(runs) BY <1>1, <1>2
<1>4. Page(k) = [n \in 1 .. size |-> item(left - n + 1)] BY DEF Page
<1> HIDE DEF left
<1>5. Max({left, 0}) \in Nat /\ Max({left, 0}) \in {left, 0}
  <2>1. Max({left, 0}) \in {left, 0} /\ Max({left, 0}) >= 0 BY <1>3, GreaterOfTwo
  <2> QED BY <1>3, <2>1
<1>6. size \in Nat /\ size <= Max({left, 0})
  <2> DEFINE m == Max({left, 0})
  <2> HIDE DEF m
  <2>1. m \in Nat BY <1>5 DEF m
  <2>a. PageSize \in Int /\ m \in Int BY <1>1, <2>1
  <2>2. Min({PageSize, m}) \in {PageSize, m} /\ Min({PageSize, m}) <= m BY <2>a, GreaterOfTwo
  <2>3. size = Min({PageSize, m}) BY DEF m
  <2> QED BY <1>1, <2>1, <2>2, <2>3 DEF m
<1> HIDE DEF size
<1>7. \A n \in 1 .. size : left - n + 1 \in 1 .. Len(runs) BY <1>1, <1>3, <1>5, <1>6
<1>8. \A r \in 1 .. Len(runs) : r \in DOMAIN runs /\ item(r) \in Listed
  <2> SUFFICES ASSUME NEW r \in 1 .. Len(runs) PROVE r \in DOMAIN runs /\ item(r) \in Listed
    OBVIOUS
  <2>1. r \in DOMAIN runs /\ r \in Nat BY <1>1 DEF RunsKept
  <2>2. runs[r] \in RunStates BY <2>1 DEF RunsKept
  <2> QED BY <2>1, <2>2, RunFacts DEF Listed, RunStates
<1>9. \A n \in 1 .. size : item(left - n + 1) \in Listed /\ left - n + 1 \in DOMAIN runs
  BY <1>7, <1>8
<1>10. Page(k) \in [1 .. size -> Listed] BY <1>4, <1>9
<1>11. Page(k) \in Seq(Listed) BY <1>6, <1>10
<1>12. ASSUME NEW n \in DOMAIN Page(k)
       PROVE  /\ Page(k)[n].run \in DOMAIN runs
              /\ Page(k)[n].attempt = Attempt(Page(k)[n].run)
              /\ Page(k)[n].started = runs[Page(k)[n].run].started
              /\ Page(k)[n].status = runs[Page(k)[n].run].status
  <2>1. n \in 1 .. size BY <1>4
  <2>2. Page(k)[n] = item(left - n + 1) /\ left - n + 1 \in DOMAIN runs BY <2>1, <1>4, <1>9
  <2> QED BY <2>2
<1> QED BY <1>11, <1>12

\* So the items are what was listed, and what is so at the moment.
LEMMA ItemsTell ==
  ASSUME GateFields
  PROVE  /\ Items \in Seq(Listed)
         /\ \A n \in DOMAIN Items :
              \/ n \in DOMAIN gate.list /\ Items[n] = gate.list[n]
              \/ /\ Items[n].run \in DOMAIN runs
                 /\ Items[n].attempt = Attempt(Items[n].run)
                 /\ Items[n].started = runs[Items[n].run].started
                 /\ Items[n].status = runs[Items[n].run].status
<1> DEFINE p == Page(gate.page)
<1>1. gate.page \in Nat \ {0} /\ gate.list \in Seq(Listed) /\ RunsKept BY DEF GateFields, Relays
<1>2. /\ p \in Seq(Listed)
      /\ \A n \in DOMAIN p :
           /\ p[n].run \in DOMAIN runs
           /\ p[n].attempt = Attempt(p[n].run)
           /\ p[n].started = runs[p[n].run].started
           /\ p[n].status = runs[p[n].run].status
  BY <1>1, PageTells
<1>3. Items = gate.list \o p BY DEF Items
<1> HIDE DEF p
<1>4. Items \in Seq(Listed) BY <1>1, <1>2, <1>3
<1>5. ASSUME NEW n \in DOMAIN Items
      PROVE  \/ n \in DOMAIN gate.list /\ Items[n] = gate.list[n]
             \/ n - Len(gate.list) \in DOMAIN p /\ Items[n] = p[n - Len(gate.list)]
  <2>1. n \in 1 .. Len(gate.list) + Len(p) BY <1>1, <1>2, <1>3
  <2>2. CASE n <= Len(gate.list) BY <1>1, <1>2, <1>3, <2>1, <2>2
  <2>3. CASE n > Len(gate.list) BY <1>1, <1>2, <1>3, <2>1, <2>3
  <2> QED BY <1>1, <2>1, <2>2, <2>3
<1> QED BY <1>2, <1>4, <1>5

LEMMA ItemsGlimpsed ==
  ASSUME GateInv
  PROVE  /\ Items \in Seq(Listed)
         /\ \A n \in DOMAIN Items : Items[n] \in Listed /\ Glimpsed(Items[n])
<1>1. GateFields /\ Items \in Seq(Listed) /\ RunsKept BY ItemsTell DEF GateInv, GateFields
<1>2. ASSUME NEW n \in DOMAIN Items PROVE Items[n] \in Listed /\ Glimpsed(Items[n])
  <2>1. Items[n] \in Listed BY <1>1
  <2>2. CASE n \in DOMAIN gate.list /\ Items[n] = gate.list[n]
    BY <2>1, <2>2 DEF GateInv, Listing
  <2>3. CASE /\ Items[n].run \in DOMAIN runs
             /\ Items[n].attempt = Attempt(Items[n].run)
             /\ Items[n].started = runs[Items[n].run].started
             /\ Items[n].status = runs[Items[n].run].status
    <3>1. Attempt(Items[n].run) \in Nat \ {0} BY <1>1, <2>3, RunFacts
    <3> QED BY <2>1, <2>3, <3>1 DEF Glimpsed
  <2> QED BY <1>1, <2>2, <2>3, ItemsTell
<1> QED BY <1>1, <1>2

\* What is wrong with an epoch shows in the next items as well.
LEMMA SpoiltShows ==
  ASSUME GateFields, NEW e \in Known
  PROVE  /\ GoneBy(e) => \A n \in DOMAIN Items :
              Items[n].run = e.run => Items[n].attempt > e.attempt \/ Items[n].status = "unusable"
         /\ Outrun(e) => \E q \in DOMAIN runs :
              /\ runs[q].started > e.started
              /\ \A n \in DOMAIN Items : Items[n].run = q => Items[n].started > e.started
<1>1. ASSUME GoneBy(e), NEW n \in DOMAIN Items, Items[n].run = e.run
      PROVE  Items[n].attempt > e.attempt \/ Items[n].status = "unusable"
  BY <1>1, ItemsTell DEF GoneBy
<1>2. ASSUME Outrun(e)
      PROVE  \E q \in DOMAIN runs :
              /\ runs[q].started > e.started
              /\ \A n \in DOMAIN Items : Items[n].run = q => Items[n].started > e.started
  <2>1. PICK q \in DOMAIN runs :
          /\ runs[q].started > e.started
          /\ \A n \in DOMAIN gate.list : gate.list[n].run = q => gate.list[n].started > e.started
    BY <1>2 DEF Outrun
  <2>2. \A n \in DOMAIN Items : Items[n].run = q => Items[n].started > e.started
    BY <2>1, ItemsTell
  <2> QED BY <2>1, <2>2
<1> QED BY <1>1, <1>2

LEMMA PageKept ==
  ASSUME GateInv, gate.at \in {"runs", "runs_again"}, UNCHANGED runs, Remembered,
         gate' = [gate EXCEPT !.list = Items, !.total = TotalCount, !.page = @ + 1]
  PROVE  GateInv'
<1>1. GateFields /\ gate \in Relays /\ RunsKept BY DEF GateInv, GateFields
<1>2. Items \in Seq(Listed) /\ \A n \in DOMAIN Items : Glimpsed(Items[n]) BY ItemsGlimpsed
<1>3. TotalCount \in Nat
  <2>1. Len(runs) \in Nat BY <1>1 DEF RunsKept
  <2>2. gate.total \in Nat BY <1>1 DEF Relays
  <2> QED BY <2>1, <2>2 DEF TotalCount
<1>4. /\ gate'.at = gate.at /\ gate'.list = Items /\ gate'.epoch = gate.epoch
      /\ gate'.stable = gate.stable /\ gate'.result = gate.result /\ gate'.seen = gate.seen
      /\ gate' \in Relays
  <2>1. gate.page + 1 \in Nat \ {0} BY <1>1 DEF Relays
  <2> QED BY <1>1, <1>2, <1>3, <2>1 DEF Relays
<1>5. shown' = shown BY <1>4 DEF Remembered
<1>6. GateFields' BY <1>1, <1>4, SameRunsKept DEF GateFields
<1>7. Listing' BY <1>2, <1>4 DEF Listing, Glimpsed, Attempt
<1>8. EpochFound' BY <1>4 DEF GateInv, EpochFound, Met, Marked, Attempt
<1>9. Vouched'
  <2> SUFFICES ASSUME gate.at = "runs_again"
               PROVE  gate.epoch \in shown.now \/ GoneBy(gate.epoch)' \/ Outrun(gate.epoch)'
    BY <1>4, <1>5 DEF Vouched
  <2>1. PICK e \in Known : e = gate.epoch BY <1>1 DEF Relays
  <2>2. CASE e \in shown.now BY <2>1, <2>2
  <2>3. CASE GoneBy(e)
    <3>1. \A n \in DOMAIN Items :
            Items[n].run = e.run => Items[n].attempt > e.attempt \/ Items[n].status = "unusable"
      BY <1>1, <2>3, SpoiltShows
    <3>2. GoneBy(gate.epoch)' BY <1>4, <2>1, <2>3, <3>1 DEF GoneBy, Attempt
    <3> QED BY <3>2
  <2>4. CASE Outrun(e)
    <3>1. \E q \in DOMAIN runs :
              /\ runs[q].started > e.started
              /\ \A n \in DOMAIN Items : Items[n].run = q => Items[n].started > e.started
      BY <1>1, <2>4, SpoiltShows
    <3>2. Outrun(gate.epoch)'
      <4>1. PICK q \in DOMAIN runs :
              /\ runs[q].started > e.started
              /\ \A n \in DOMAIN Items : Items[n].run = q => Items[n].started > e.started
        BY <3>1
      <4>2. runs' = runs /\ gate'.list = Items /\ gate'.epoch = e BY <1>4, <2>1
      <4>3. \A n \in DOMAIN gate'.list :
              gate'.list[n].run = q => gate'.list[n].started > gate'.epoch.started
        BY <4>1, <4>2
      <4>4. q \in DOMAIN runs' /\ runs'[q].started > gate'.epoch.started BY <4>1, <4>2
      <4> QED BY <4>3, <4>4 DEF Outrun
    <3> QED BY <3>2
  <2> QED BY <2>1, <2>2, <2>3, <2>4 DEF GateInv, Vouched
<1>10. Remembrance' /\ GateIsEarned' BY <1>4, <1>5 DEF GateInv, Remembrance, GateIsEarned
<1> QED BY <1>6, <1>7, <1>8, <1>9, <1>10 DEF GateInv

LEMMA LatestIsGreatest ==
  ASSUME GateFields, Items # <<>>
  PROVE  \E n \in DOMAIN Items :
           Latest = Items[n] /\ \A m \in DOMAIN Items : Items[m].started <= Items[n].started
<1>1. Items \in Seq(Listed) BY ItemsTell
<1>2. MaxStarts \in Nat /\ \A n \in DOMAIN Items : Items[n].started \in 0 .. MaxStarts
  <2>1. ASSUME NEW n \in DOMAIN Items PROVE Items[n].started \in 0 .. MaxStarts
    <3>1. Items[n] \in Listed BY <1>1, ItemOf
    <3> QED BY <3>1, MergeGateAssumption DEF Listed, Starts
  <2> QED BY <2>1, MergeGateAssumption
<1> DEFINE S == {Items[n].started : n \in DOMAIN Items}
<1>3. S \in SUBSET (0 .. MaxStarts) BY <1>2
<1>4. S # {}
  <2>1. 1 \in DOMAIN Items BY <1>1
  <2> QED BY <2>1
<1>5. Max(S) \in S /\ \A x \in S : x <= Max(S) BY <1>2, <1>3, <1>4, GreatestExists
<1>6. PICK n \in DOMAIN Items : Items[n].started = Max(S) BY <1>5
<1>7. \A m \in DOMAIN Items : Items[m].started \in S OBVIOUS
<1> HIDE DEF S
<1>8. \A m \in DOMAIN Items : Items[m].started <= Items[n].started BY <1>5, <1>6, <1>7
<1> DEFINE P(i) == \A m \in DOMAIN Items : Items[m].started <= Items[i].started
           c == CHOOSE i \in DOMAIN Items : P(i)
<1>9. Latest = Items[c] BY DEF Latest
<1>10. c \in DOMAIN Items /\ P(c) BY <1>8
<1> HIDE DEF c
<1> QED BY <1>9, <1>10

\* The last page leaves no run out.
LEMMA AllAreListed ==
  ASSUME GateInv, Consistent, ~ (gate.page * PageSize < TotalCount)
  PROVE  \A q \in DOMAIN runs : \E n \in DOMAIN Items : Items[n].run = q
<1>1. GateFields /\ gate \in Relays /\ RunsKept BY DEF GateInv, GateFields
<1>2. TotalCount = Len(runs) /\ Len(runs) \in Nat /\ DOMAIN runs = 1 .. Len(runs)
  BY <1>1 DEF Consistent, RunsKept
<1>3. gate.page * PageSize \in Nat BY <1>1, MergeGateAssumption DEF Relays
<1>4. gate.page * PageSize >= TotalCount BY <1>2, <1>3
<1> DEFINE S == {Items[n].run : n \in DOMAIN Items}
<1>5. Cardinality(S) = Len(runs) BY <1>2, <1>4 DEF Consistent
<1>6. S \in SUBSET (1 .. Len(runs)) BY <1>2, ItemsGlimpsed DEF Glimpsed
<1>7. IsFiniteSet(1 .. Len(runs)) /\ Cardinality(1 .. Len(runs)) = Len(runs)
  <2> DEFINE m == Len(runs)
  <2>1. m \in Nat /\ m \in Int /\ 1 \in Int BY <1>2
  <2> HIDE DEF m
  <2>2. /\ IsFiniteSet(1 .. m)
        /\ Cardinality(1 .. m) = IF 1 > m THEN 0 ELSE m - 1 + 1
    BY <2>1, FS_Interval
  <2>3. Cardinality(1 .. m) = m BY <2>1, <2>2
  <2> QED BY <2>2, <2>3 DEF m
<1> HIDE DEF S
<1>8. S = 1 .. Len(runs) BY <1>5, <1>6, <1>7, FS_Subset
<1> QED BY <1>2, <1>8 DEF S

LEMMA ReadRunsKeeps ==
  ASSUME GateInv, ReadRuns, Remembered
  PROVE  GateInv'
<1>1. gate.at = "runs" /\ UNCHANGED <<pull, runs>> /\ gate.at \in Requests
  BY DEF ReadRuns, ReadPage, Asks, Requests
<1>2. GateFields /\ gate \in Relays /\ RunsKept BY DEF GateInv, GateFields
<1>3. CASE gate.page * PageSize < TotalCount BY <1>1, <1>3, PageKept DEF ReadRuns, ReadPage
<1>4. CASE ~ (gate.page * PageSize < TotalCount) /\ Selected # "success"
  <2>1. Sees(Selected) BY <1>4 DEF ReadRuns, ReadPage
  <2>2. Selected \in {"pending", "failure"} BY <1>4 DEF Selected
  <2> QED BY <1>1, <2>1, <2>2, SeenInVain
<1>5. CASE ~ (gate.page * PageSize < TotalCount) /\ Selected = "success"
  <2>1. Items # <<>> BY <1>5 DEF Selected
  <2>2. CASE Latest.status # "success"
    <3>1. Sees("pending") BY <1>5, <2>2 DEF ReadRuns, ReadPage
    <3> QED BY <1>1, <3>1, SeenInVain
  <2>3. CASE Latest.status = "success"
    <3>1. gate' = [gate EXCEPT !.at = "jobs", !.epoch = EpochOf(Latest),
                              !.list = <<>>, !.total = 0, !.page = 1]
      BY <1>5, <2>3 DEF ReadRuns, ReadPage
    <3>2. Latest \in Listed /\ Glimpsed(Latest) BY <1>2, <2>1, LatestIsGreatest, ItemsGlimpsed
    <3> DEFINE e == EpochOf(Latest)
    <3>3. /\ e \in Known /\ e.run = Latest.run /\ e.attempt = Latest.attempt
          /\ e.started = Latest.started
      BY <3>2, MergeGateAssumption DEF EpochOf, Known, Listed, Starts
    <3>4. Met(e) BY <2>3, <3>2, <3>3 DEF Met, Glimpsed
    <3> HIDE DEF e
    <3>5. /\ gate'.at = "jobs" /\ gate'.list = <<>> /\ gate'.epoch = e
          /\ gate'.stable = gate.stable /\ gate'.result = gate.result /\ gate' \in Relays
      <4>1. <<>> \in Seq(Listed) /\ "jobs" \in Requests BY DEF Requests
      <4>2. 0 \in Nat /\ 1 \in Nat \ {0} OBVIOUS
      <4> QED BY <1>2, <3>1, <3>3, <4>1, <4>2 DEF Relays, e
    <3>6. shown' = shown BY <1>1, <3>5 DEF Remembered
    <3>7. GateFields' /\ Listing' /\ Vouched'
      <4>1. GateFields' BY <1>1, <1>2, <3>5, SameRunsKept DEF GateFields
      <4> QED BY <3>5, <4>1, EmptyListing DEF Vouched
    <3>8. EpochFound' BY <1>1, <3>4, <3>5 DEF EpochFound, Met, Attempt
    <3>9. Remembrance' /\ GateIsEarned'
      BY <1>1, <3>5, <3>6 DEF GateInv, Remembrance, GateIsEarned
    <3> QED BY <3>7, <3>8, <3>9 DEF GateInv
  <2> QED BY <2>2, <2>3
<1> QED BY <1>3, <1>4, <1>5

\* An epoch that is selected again was good when the pull request was looked at again.
LEMMA SelectedAgainIsVouched ==
  ASSUME GateInv, gate.at = "runs_again", Consistent, ~ (gate.page * PageSize < TotalCount),
         Items # <<>>, EpochOf(Latest) = gate.epoch, Latest.status = "success"
  PROVE  gate.epoch \in shown.now
<1>1. GateFields /\ gate \in Relays /\ RunsKept BY DEF GateInv, GateFields
<1>2. PICK n \in DOMAIN Items :
        Latest = Items[n] /\ \A m \in DOMAIN Items : Items[m].started <= Items[n].started
  BY <1>1, LatestIsGreatest
<1>3. \A m \in DOMAIN Items : Items[m] \in Listed BY ItemsGlimpsed
<1>4. PICK e \in Known : e = gate.epoch BY <1>1 DEF Relays
<1>5. e.run = Items[n].run /\ e.attempt = Items[n].attempt /\ e.started = Items[n].started
  <2>1. e = EpochOf(Items[n]) BY <1>2, <1>4
  <2> QED BY <2>1 DEF EpochOf
<1>6. ~ GoneBy(e)
  <2>1. SUFFICES ASSUME GoneBy(e) PROVE FALSE OBVIOUS
  <2>2. Items[n].attempt > e.attempt \/ Items[n].status = "unusable"
    BY <1>1, <1>5, <2>1, SpoiltShows
  <2> QED
    <3>1. Items[n].attempt \in Nat BY <1>3 DEF Listed
    <3>2. Items[n].status = "success" /\ e.attempt = Items[n].attempt BY <1>2, <1>5
    <3> QED BY <2>2, <3>1, <3>2
<1>7. ~ Outrun(e)
  <2>1. SUFFICES ASSUME Outrun(e) PROVE FALSE OBVIOUS
  <2>2. PICK q \in DOMAIN runs :
          /\ runs[q].started > e.started
          /\ \A m \in DOMAIN Items : Items[m].run = q => Items[m].started > e.started
    BY <1>1, <2>1, SpoiltShows
  <2>3. PICK m \in DOMAIN Items : Items[m].run = q BY AllAreListed
  <2>4. Items[m].started > e.started /\ Items[m].started <= e.started BY <1>2, <1>5, <2>2, <2>3
  <2>5. Items[m].started \in Nat /\ e.started \in Nat
    <3>1. Items[m] \in Listed BY <1>3
    <3> QED BY <3>1, MergeGateAssumption DEF Listed, Starts, Known
  <2> DEFINE a == Items[m].started
             b == e.started
  <2>6. a \in Nat /\ b \in Nat /\ a > b /\ a <= b BY <2>4, <2>5
  <2> HIDE DEF a, b
  <2> QED BY <2>6
<1>8. e \in shown.now \/ GoneBy(e) \/ Outrun(e) BY <1>4 DEF GateInv, Vouched
<1> QED BY <1>4, <1>6, <1>7, <1>8

LEMMA ReadRunsAgainKeeps ==
  ASSUME GateInv, ReadRunsAgain, Remembered
  PROVE  GateInv'
<1>1. gate.at = "runs_again" /\ UNCHANGED <<pull, runs>> /\ gate.at \in Requests /\ Consistent
  BY DEF ReadRunsAgain, ReadPage, Asks, Requests
<1>2. GateFields /\ gate \in Relays /\ RunsKept BY DEF GateInv, GateFields
<1>3. CASE gate.page * PageSize < TotalCount BY <1>1, <1>3, PageKept DEF ReadRunsAgain, ReadPage
<1>4. CASE ~ (gate.page * PageSize < TotalCount) /\ Selected # "success"
  <2>1. Sees(Selected) BY <1>4 DEF ReadRunsAgain, ReadPage
  <2>2. Selected \in {"pending", "failure"} BY <1>4 DEF Selected
  <2> QED BY <1>1, <2>1, <2>2, SeenInVain
<1>5. CASE ~ (gate.page * PageSize < TotalCount) /\ Selected = "success"
  <2>1. Items # <<>> BY <1>5 DEF Selected
  <2>2. CASE ~ (EpochOf(Latest) = gate.epoch /\ Latest.status = "success")
    <3>1. Sees("pending") BY <1>5, <2>2 DEF ReadRunsAgain, ReadPage
    <3> QED BY <1>1, <3>1, SeenInVain
  <2>3. CASE EpochOf(Latest) = gate.epoch /\ Latest.status = "success"
    <3>1. Sees("success") BY <1>5, <2>3 DEF ReadRunsAgain, ReadPage
    <3>2. gate.epoch \in shown.now BY <1>1, <1>5, <2>1, <2>3, SelectedAgainIsVouched
    <3>3. gate' = [gate EXCEPT !.at = "judge", !.seen = "success", !.list = <<>>, !.total = 0,
                     !.page = 1, !.epoch = gate.epoch]
      BY <3>1 DEF Sees
    <3>4. /\ gate'.at = "judge" /\ gate'.list = <<>> /\ gate'.epoch = gate.epoch
          /\ gate'.seen = "success"
          /\ gate'.stable = gate.stable /\ gate'.result = gate.result /\ gate' \in Relays
      <4>1. <<>> \in Seq(Listed) OBVIOUS
      <4>2. 0 \in Nat /\ 1 \in Nat \ {0} OBVIOUS
      <4> QED BY <1>2, <3>3, <4>1, <4>2 DEF Relays
    <3>5. shown' = shown BY <1>1, <3>4 DEF Remembered
    <3>6. GateFields' /\ Listing' /\ Vouched' /\ EpochFound'
      <4>1. GateFields' BY <1>1, <1>2, <3>4, SameRunsKept DEF GateFields
      <4> QED BY <3>4, <4>1, EmptyListing DEF Vouched, EpochFound
    <3>7. Remembrance' /\ GateIsEarned'
      BY <1>1, <3>2, <3>4, <3>5 DEF GateInv, Remembrance, GateIsEarned
    <3> QED BY <3>6, <3>7 DEF GateInv
  <2> QED BY <2>2, <2>3
<1> QED BY <1>3, <1>4, <1>5

\* The gate passes only for an epoch that, at the moment at which the last observation
\* found the pull request as it was called for, and at that moment of the one before, was
\* the newest, ended with success and so its marker: GateIsEarned, for any number of runs,
\* attempts, moves of the pull request and runs on a page.
THEOREM GateIsEarnedAlways == MergeGateSpec => []GateIsEarned
<1>1. MergeGateInit => GateInv BY InitGateInv
<1>2. GateInv /\ [MergeGateNext]_gateVars => GateInv'
  <2> SUFFICES ASSUME GateInv, [MergeGateNext]_gateVars PROVE GateInv' OBVIOUS
  <2>1. CASE UNCHANGED gateVars
    <3>1. pull' = pull /\ runs' = runs /\ gate' = gate /\ shown' = shown BY <2>1 DEF gateVars
    <3> QED
      <4>1. GateFields' BY <3>1, SameRunsKept DEF GateInv, GateFields
      <4>2. Listing' BY <3>1 DEF GateInv, Listing, Glimpsed, Attempt
      <4>3. EpochFound' /\ Vouched'
        BY <3>1 DEF GateInv, EpochFound, Met, Marked, Attempt, Vouched, GoneBy, Outrun
      <4>4. Remembrance' /\ GateIsEarned' BY <3>1 DEF GateInv, Remembrance, GateIsEarned
      <4> QED BY <4>1, <4>2, <4>3, <4>4 DEF GateInv
  <2>2. CASE MergeGateNext
    <3>1. Remembered /\ (GateStep \/ GitHubStep) BY <2>2 DEF MergeGateNext
    <3>2. CASE GitHubStep BY <3>1, <3>2, GitHubKeepsGateInv
    <3>3. CASE GateStep
      BY <3>1, <3>3, ReadPullKeeps, ReadRunsKeeps, ReadJobsKeeps, ReadCheckKeeps,
         ReadPullAgainKeeps, ReadRunsAgainKeeps, RequestFailsKeeps, JudgeKeeps DEF GateStep
    <3> QED BY <3>1, <3>2, <3>3
  <2> QED BY <2>1, <2>2
<1>3. GateInv => GateIsEarned BY DEF GateInv
<1> QED BY <1>1, <1>2, <1>3, PTL DEF MergeGateSpec

-----------------------------------------------------------------------------
(***************************************************************************)
(* ProcessWatchdog: what is reported of a cleanup is true, for any number  *)
(* of closers and faults.                                                  *)
(***************************************************************************)
Triggers == {"", "cancel", "signal", "deadline", "early_exit", "parent_eof",
             "exec_failure", "status_error", "watchdog_error", "startup_error"}
QuietFrames == [type : {"QUIET"}, ready : BOOLEAN, child : BOOLEAN, cancelled : BOOLEAN,
                trigger : Triggers]
StatusFrames == [type : {"READY", "DEBT"}] \cup QuietFrames
Transports == [ready : BOOLEAN, quiet : QuietFrames \cup {NoQuiet}, eof : BOOLEAN,
               broken : BOOLEAN, reaped : BOOLEAN, finalized : BOOLEAN]

\* The types, with those of the frames.
EnvShape ==
  /\ lapsed \in BOOLEAN /\ callerAlive \in BOOLEAN /\ helperKilled \in BOOLEAN
  /\ faults \in 0..MaxFaults

ServiceShape ==
  /\ service \in {"none", "held", "doomed", "armed", "live", "zombie", "reaped"}
  /\ group \in BOOLEAN
  /\ exec \in {"open", "eof", "error", "read"}

Helpers ==
  [pc : {"none", "config", "fork", "handshake", "settle", "watch", "signal", "observe",
         "reap", "publish", "exited"},
   trigger : Triggers, ready : BOOLEAN, owned : BOOLEAN, stop : BOOLEAN]
HelperShape ==
  /\ helper \in Helpers
  /\ term \in [entered : BOOLEAN, running : BOOLEAN, delivered : BOOLEAN,
               uncertain : BOOLEAN, debt : BOOLEAN, stray : BOOLEAN]

PipeShape ==
  /\ control \in Seq({"CONFIG", "PARTIAL", "CANCEL"}) /\ controlOpen \in BOOLEAN
  /\ status \in Seq(StatusFrames)
  /\ tr \in Transports

StartShape ==
  /\ slot \in BOOLEAN
  /\ worker \in {"none", "boot", "construct", "scrap", "decide", "cancel",
                 "drain", "done"}
  /\ op \in [ready : BOOLEAN, decided : BOOLEAN, acknowledged : BOOLEAN,
             abandoned : BOOLEAN, failed : BOOLEAN,
             outcome : {"none", "transferred", "quiet", "debt"}]
  /\ starter \in {"launch", "claim", "config", "ready", "acknowledge",
                  "returned", "giveup", "wait", "closing", "raised"}

CloseShape ==
  /\ close \in [owner : Closers \cup {NoCloser}, pending : BOOLEAN,
                outcome : {"none", "quiet", "error", "debt"},
                observed : BOOLEAN, expired : BOOLEAN]
  /\ closer \in [Closers -> {"idle", "wait", "entry", "first", "cancel",
                             "second", "settle", "quiet", "error", "debt",
                             "late"}]

\* No frame is sent twice: one configuration, one cancellation with which the
\* pipe is closed, READY when exec is read, one DEBT, and the last one.
FramesAreFew ==
  /\ Len(control) <= (IF starter \in {"launch", "claim", "config"} THEN 0 ELSE 1)
                      + (IF controlOpen THEN 0 ELSE 1)
  /\ Len(status) <= (IF helper.ready THEN 1 ELSE 0) + (IF term.debt THEN 1 ELSE 0)
                     + (IF helper.pc = "exited" THEN 1 ELSE 0)
  /\ helper.ready => exec = "read"
  /\ service \in {"none", "held", "armed", "doomed"} => exec = "open"

\* What the helper may rely on, by its place.  A service it owns is reaped by
\* nobody else, and only a waitpid() of unknown outcome leaves that open.
HelperKnows ==
  /\ service \in {"none", "held", "armed", "doomed"} => ~group
  /\ helper.pc \in {"none", "config", "fork"} => service = "none" /\ ~helper.owned
  /\ helper.pc = "handshake" => service = "held"
  /\ helper.pc = "settle" => service \in {"none", "doomed", "zombie"} /\ ~group
  /\ helper.pc = "watch" => helper.owned /\ service \in {"armed", "live", "zombie"}
  /\ helper.pc \in {"signal", "observe"} =>
       service \notin {"none", "held"} /\ (service = "reaped" => term.uncertain)
  /\ helper.pc = "publish" => TreeGone
  /\ service = "held" => helper.pc = "handshake"
  /\ helper.pc # "reap"
  /\ ~term.stray

\* The last frame was sent by a helper that is gone, about a tree that was, and
\* a result of the lease rests on that frame.
Told == tr.quiet # NoQuiet \/ \E i \in DOMAIN status : status[i].type = "QUIET"
QuietIsFinal ==
  /\ Told => TreeGone /\ helper.pc = "exited"
  /\ close.outcome \in {"quiet", "error"} => tr.quiet # NoQuiet
  /\ op.outcome = "quiet" /\ worker = "done" =>
       TreeGone /\ helper.pc \in {"none", "exited"}

\* How far the starter and the worker may be from each other.
HandedOver ==
  /\ starter = "launch" <=> worker = "none"
  /\ worker \in {"none", "boot"} => helper.pc = "none"
  /\ worker \in {"none", "boot", "construct"} => ~op.ready
  /\ worker \in {"none", "boot", "construct", "scrap"} =>
       /\ control = <<>> /\ service = "none"
       /\ helper.pc \in {"none", "config", "publish", "exited"}
       /\ starter \in {"launch", "claim", "giveup", "wait", "raised"}
  /\ starter \in {"config", "ready", "acknowledge", "returned", "closing"} =>
       op.ready /\ ~op.failed
  /\ worker = "scrap" => op.failed

\* Who decided what: the starter claims or abandons, once.
Authorized ==
  /\ slot <=> op.acknowledged
  /\ slot <=> starter \in {"returned", "closing"}
  /\ op.decided <=> op.acknowledged \/ op.abandoned
  /\ ~(op.acknowledged /\ op.abandoned)
  /\ starter \in {"launch", "claim", "config", "ready", "acknowledge"} => ~op.decided
  /\ worker \in {"cancel", "drain"} => op.abandoned
  /\ \A c \in Closers :
       /\ closer[c] # "idle" => slot
       /\ closer[c] \in {"entry", "first", "cancel", "second", "settle"} => close.owner = c

WatchdogInv ==
  /\ EnvShape /\ ServiceShape /\ HelperShape /\ PipeShape /\ StartShape /\ CloseShape
  /\ FramesAreFew /\ HelperKnows /\ QuietIsFinal /\ HandedOver /\ Authorized


\* Induction on numbers, as a fact about a set of them.
LEMMA LeastNatural ==
  ASSUME NEW S \in SUBSET Nat, S # {}
  PROVE  \E n \in S : \A m \in S : n <= m
<1>1. PICK n \in S : \A m \in S : ~ (<<m, n>> \in OpToRel(<, Nat))
  BY NatLessThanWellFounded, WFMin
<1>2. \A m \in S : ~ (m < n) BY <1>1 DEF OpToRel
<1> QED BY <1>2

LEMMA OfAllNaturals ==
  ASSUME NEW P, 0 \in P, \A n \in Nat : n \in P => n + 1 \in P
  PROVE  Nat \subseteq P
<1> DEFINE bad == {n \in Nat : n \notin P}
<1>1. CASE bad # {}
  <2>1. PICK n \in bad : \A m \in bad : n <= m
    <3>1. bad \in SUBSET Nat OBVIOUS
    <3> HIDE DEF bad
    <3> QED BY <1>1, <3>1, LeastNatural
  <2>2. n \in Nat /\ n # 0 /\ n - 1 \in Nat /\ (n - 1) + 1 = n BY <2>1
  <2>3. n - 1 \in P BY <2>1, <2>2
  <2> QED BY <2>1, <2>2, <2>3
<1>2. CASE bad = {} BY <1>2
<1> QED BY <1>1, <1>2

LEMMA FaultIsCounted ==
  ASSUME EnvShape, Fault
  PROVE  faults' \in 0..MaxFaults
BY WatchdogAssumption DEF EnvShape, Fault

LEMMA LeaveIs ==
  ASSUME NEW h \in Helpers, NEW trigger \in Triggers
  PROVE  /\ Leave(h, trigger) \in Helpers
         /\ Leave(h, trigger).pc = IF h.owned THEN "signal" ELSE "publish"
         /\ Leave(h, trigger).owned = h.owned
         /\ Leave(h, trigger).ready = h.ready
BY DEF Leave, Helpers

\* Frames are put at the end of a pipe, or nothing is.
LEMMA FrameIsWritten ==
  ASSUME PipeShape, NEW m \in StatusFrames, WriteStatus(m)
  PROVE  /\ status' \in Seq(StatusFrames)
         /\ Len(status') <= Len(status) + 1
         /\ \A i \in DOMAIN status' :
              status'[i] = m \/ \E j \in DOMAIN status : status'[i] = status[j]
<1>1. status \in Seq(StatusFrames) /\ Len(status) \in Nat /\ DOMAIN status = 1 .. Len(status)
  BY LenProperties DEF PipeShape
<1>2. CASE status' = status BY <1>1, <1>2
<1>3. CASE status' = Append(status, m)
  <2>1. /\ Append(status, m) \in Seq(StatusFrames)
        /\ Len(Append(status, m)) = Len(status) + 1
        /\ \A i \in 1 .. Len(status) : Append(status, m)[i] = status[i]
        /\ Append(status, m)[Len(status) + 1] = m
    BY <1>1, AppendProperties
  <2>2. DOMAIN Append(status, m) = 1 .. Len(status) + 1 BY <1>1, <2>1, LenProperties
  <2> QED BY <1>1, <1>3, <2>1, <2>2
<1> QED BY <1>2, <1>3 DEF WriteStatus

LEMMA FrameIsSent ==
  ASSUME PipeShape, NEW m \in {"CONFIG", "PARTIAL", "CANCEL"}
  PROVE  /\ Append(control, m) \in Seq({"CONFIG", "PARTIAL", "CANCEL"})
         /\ Len(Append(control, m)) = Len(control) + 1
         /\ Len(control) \in Nat
BY AppendProperties, LenProperties DEF PipeShape

LEMMA FrameIsTaken ==
  ASSUME PipeShape, control # <<>>
  PROVE  /\ Tail(control) \in Seq({"CONFIG", "PARTIAL", "CANCEL"})
         /\ Len(Tail(control)) <= Len(control)
<1>1. control \in Seq({"CONFIG", "PARTIAL", "CANCEL"}) BY DEF PipeShape
<1>2. Len(control) \in Nat BY <1>1, LenProperties
<1> QED BY <1>1, <1>2, HeadTailProperties

LEMMA NothingIsSent ==
  /\ <<>> \in Seq({"CONFIG", "PARTIAL", "CANCEL"})
  /\ Len(<<>>) = 0
BY EmptySeq

LEMMA AcceptKeeps ==
  ASSUME NEW t \in Transports, NEW m \in StatusFrames
  PROVE  /\ Accept(t, m) \in Transports
         /\ Accept(t, m).eof = t.eof
         /\ Accept(t, m).reaped = t.reaped
         /\ Accept(t, m).finalized = t.finalized
         /\ t.quiet # NoQuiet => Accept(t, m).quiet = t.quiet
         /\ Accept(t, m).quiet # NoQuiet => t.quiet # NoQuiet \/ m.type = "QUIET"
<1>1. CASE Accept(t, m) = [t EXCEPT !.broken = TRUE] BY <1>1 DEF Transports
<1>2. CASE m.type = "READY" /\ Accept(t, m) = [t EXCEPT !.ready = TRUE] BY <1>2 DEF Transports
<1>3. CASE m.type = "QUIET" /\ t.quiet = NoQuiet /\ Accept(t, m) = [t EXCEPT !.quiet = m]
  <2>1. m \in QuietFrames BY <1>3 DEF StatusFrames
  <2> QED BY <1>3, <2>1 DEF Transports
<1>4. CASE Accept(t, m) = t BY <1>4
<1> QED BY <1>1, <1>2, <1>3, <1>4 DEF Accept, StatusFrames, QuietFrames

\* What k frames have made of the transport that began with them.
HeardUpTo(f, k) ==
  f = [n \in 0 .. k |-> IF n = 0 THEN tr ELSE Accept(f[n - 1], status[n])]

\* The recursion of Heard defines something.
LEMMA HeardExists ==
  \A k \in Nat : \E f : HeardUpTo(f, k)
<1> DEFINE P == {k \in Nat : \E f : HeardUpTo(f, k)}
<1>1. 0 \in P
  <2> DEFINE f == [n \in 0 .. 0 |-> tr]
  <2>1. f = [n \in 0 .. 0 |-> IF n = 0 THEN tr ELSE Accept(f[n - 1], status[n])] OBVIOUS
  <2> QED BY <2>1 DEF HeardUpTo
<1>2. ASSUME NEW k \in Nat, k \in P PROVE k + 1 \in P
  <2>1. PICK f : HeardUpTo(f, k) BY <1>2
  <2> DEFINE g == [n \in 0 .. k + 1 |-> IF n <= k THEN f[n] ELSE Accept(f[k], status[k + 1])]
             h == [n \in 0 .. k + 1 |-> IF n = 0 THEN tr ELSE Accept(g[n - 1], status[n])]
  <2>2. f = [n \in 0 .. k |-> IF n = 0 THEN tr ELSE Accept(f[n - 1], status[n])]
    BY <2>1 DEF HeardUpTo
  <2>3. ASSUME NEW n \in 0 .. k + 1 PROVE g[n] = h[n]
    <3>1. CASE n = 0 BY <2>2, <3>1
    <3>2. CASE n \in 1 .. k
      <4>1. n \in 0 .. k /\ n # 0 /\ n <= k /\ n - 1 \in 0 .. k + 1 /\ n - 1 <= k BY <3>2
      <4>2. g[n] = f[n] /\ g[n - 1] = f[n - 1] /\ h[n] = Accept(g[n - 1], status[n]) BY <4>1
      <4>3. f[n] = Accept(f[n - 1], status[n]) BY <2>2, <4>1
      <4> QED BY <4>2, <4>3
    <3>3. CASE n = k + 1
      <4>1. n # 0 /\ ~(n <= k) /\ n - 1 = k /\ k \in 0 .. k + 1 /\ k <= k BY <3>3
      <4>2. g[n] = Accept(f[k], status[k + 1]) /\ g[k] = f[k] /\ h[n] = Accept(g[n - 1], status[n])
        BY <4>1
      <4> QED BY <3>3, <4>1, <4>2
    <3> QED BY <3>1, <3>2, <3>3
  <2>4. g = h
    <3>1. g = [n \in 0 .. k + 1 |-> g[n]] /\ h = [n \in 0 .. k + 1 |-> h[n]] OBVIOUS
    <3> HIDE DEF g, h
    <3> QED BY <2>3, <3>1
  <2>5. HeardUpTo(g, k + 1)
    <3>1. g = [n \in 0 .. k + 1 |-> IF n = 0 THEN tr ELSE Accept(g[n - 1], status[n])] BY <2>4
    <3> HIDE DEF g
    <3> QED BY <3>1 DEF HeardUpTo
  <2> QED BY <2>5
<1> HIDE DEF P
<1>3. Nat \subseteq P BY <1>1, <1>2, OfAllNaturals
<1> QED BY <1>3 DEF P

\* What reading may do to the transport, however many frames are read.
LEMMA HeardKeeps ==
  ASSUME PipeShape, NEW k \in 0 .. Len(status)
  PROVE  /\ Heard(k) \in Transports
         /\ Heard(k).eof = tr.eof
         /\ Heard(k).reaped = tr.reaped
         /\ Heard(k).finalized = tr.finalized
         /\ tr.quiet # NoQuiet => Heard(k).quiet = tr.quiet
         /\ Heard(k).quiet # NoQuiet => Told
<1>1. /\ status \in Seq(StatusFrames) /\ Len(status) \in Nat /\ tr \in Transports
      /\ DOMAIN status = 1 .. Len(status)
      /\ \A i \in 1 .. Len(status) : status[i] \in StatusFrames
  BY LenProperties DEF PipeShape
<1> DEFINE f == CHOOSE g : HeardUpTo(g, k)
           Good(t) == /\ t \in Transports /\ t.eof = tr.eof /\ t.reaped = tr.reaped
                      /\ t.finalized = tr.finalized
                      /\ tr.quiet # NoQuiet => t.quiet = tr.quiet
                      /\ t.quiet # NoQuiet => Told
           P == {n \in Nat : n <= k => Good(f[n])}
<1>2. f = [n \in 0 .. k |-> IF n = 0 THEN tr ELSE Accept(f[n - 1], status[n])]
  <2>1. k \in Nat BY <1>1
  <2>2. HeardUpTo(f, k) BY <2>1, HeardExists
  <2> QED BY <2>2 DEF HeardUpTo
<1>3. Heard(k) = f[k] BY DEF Heard, HeardUpTo
<1> HIDE DEF f
<1>4. 0 \in P BY <1>1, <1>2 DEF Told
<1>5. ASSUME NEW n \in Nat, n \in P PROVE n + 1 \in P
  <2> SUFFICES ASSUME n + 1 <= k PROVE Good(f[n + 1]) OBVIOUS
  <2>1. n + 1 \in 0 .. k /\ n + 1 # 0 /\ (n + 1) - 1 = n /\ n <= k /\ n + 1 \in 1 .. Len(status)
    BY <1>1
  <2>2. f[n + 1] = Accept(f[n], status[n + 1]) /\ Good(f[n]) BY <1>2, <1>5, <2>1
  <2>3. status[n + 1] \in StatusFrames BY <1>1, <2>1
  <2>4. status[n + 1].type = "QUIET" => Told BY <1>1, <2>1 DEF Told
  <2> DEFINE t == f[n]
             m == status[n + 1]
  <2> HIDE DEF t, m
  <2> QED BY <2>2, <2>3, <2>4, AcceptKeeps DEF t, m
<1> HIDE DEF P
<1>6. k \in P BY <1>1, <1>4, <1>5, OfAllNaturals
<1> QED BY <1>1, <1>3, <1>6 DEF P

\* A pump, whoever pumps.
LEMMA PumpKeeps ==
  ASSUME PipeShape, NEW finalizing \in BOOLEAN, Pump(finalizing)
  PROVE  /\ control' = control
         /\ controlOpen' \in BOOLEAN /\ (controlOpen' => controlOpen)
         /\ status' \in Seq(StatusFrames) /\ Len(status') <= Len(status)
         /\ tr' \in Transports
         /\ tr.quiet # NoQuiet => tr'.quiet = tr.quiet
         /\ Told' => Told
<1>1. /\ status \in Seq(StatusFrames) /\ Len(status) \in Nat /\ tr \in Transports
      /\ DOMAIN status = 1 .. Len(status) /\ controlOpen \in BOOLEAN
      /\ \A i \in 1 .. Len(status) : status[i] \in StatusFrames
  BY LenProperties DEF PipeShape
<1>2. CASE UNCHANGED <<tr, pipeVars>> BY <1>1, <1>2 DEF pipeVars, Told
<1>3. CASE \E k \in 0 .. Len(status), end \in BOOLEAN :
             /\ tr' = IF finalizing THEN Finalized(Pumped(k, end)) ELSE Pumped(k, end)
             /\ status' = SubSeq(status, k + 1, Len(status))
             /\ controlOpen' = (controlOpen /\ ~tr'.broken /\ ~tr'.finalized)
             /\ UNCHANGED control
  <2>1. PICK k \in 0 .. Len(status), end \in BOOLEAN :
             /\ tr' = IF finalizing THEN Finalized(Pumped(k, end)) ELSE Pumped(k, end)
             /\ status' = SubSeq(status, k + 1, Len(status))
             /\ controlOpen' = (controlOpen /\ ~tr'.broken /\ ~tr'.finalized)
             /\ UNCHANGED control
    BY <1>3
  <2> DEFINE read == IF tr.broken \/ tr.eof THEN tr ELSE Heard(k)
             exited == helper.pc = "exited"
             t == [read EXCEPT !.eof = @ \/ end, !.broken = @ \/ (end /\ read.quiet = NoQuiet),
                               !.reaped = @ \/ exited]
  <2>2. /\ read \in Transports
        /\ tr.quiet # NoQuiet => read.quiet = tr.quiet
        /\ read.quiet # NoQuiet => Told
    BY <1>1, HeardKeeps DEF Told
  <2>3. Pumped(k, end) = t BY DEF Pumped
  <2> HIDE DEF read
  <2>4. exited \in BOOLEAN OBVIOUS
  <2> HIDE DEF exited
  <2>5. t \in Transports /\ t.quiet = read.quiet BY <2>2, <2>4 DEF Transports
  <2> HIDE DEF t
  <2>6. Finalized(t) \in Transports /\ Finalized(t).quiet = t.quiet
    BY <2>5 DEF Finalized, Transports
  <2>7. tr' \in Transports /\ tr'.quiet = read.quiet BY <2>1, <2>3, <2>5, <2>6
  <2>8. controlOpen' \in BOOLEAN /\ (controlOpen' => controlOpen) BY <1>1, <2>1
  <2>9. /\ status' \in Seq(StatusFrames) /\ Len(status') <= Len(status)
        /\ \A i \in DOMAIN status' : \E j \in DOMAIN status : status'[i] = status[j]
    <3> DEFINE n == Len(status)
               q == SubSeq(status, k + 1, n)
    <3>1. /\ k + 1 \in Int /\ n \in Int /\ k \in Int
          /\ \A i \in k + 1 .. n : status[i] \in StatusFrames
      BY <1>1
    <3>2. /\ q \in Seq(StatusFrames)
          /\ Len(q) = IF k + 1 <= n THEN n - (k + 1) + 1 ELSE 0
          /\ \A i \in 1 .. n - (k + 1) + 1 : q[i] = status[(k + 1) + i - 1]
      BY <3>1, SubSeqProperties
    <3>3. DOMAIN q = 1 .. Len(q) /\ Len(q) \in Nat BY <3>2, LenProperties
    <3>4. status' = q BY <2>1
    <3>5. n \in Nat /\ k >= 0 /\ k <= n BY <1>1
    <3> HIDE DEF n, q
    <3>6. Len(q) = n - k BY <3>1, <3>2, <3>5
    <3>7. ASSUME NEW i \in DOMAIN q PROVE \E j \in 1 .. n : q[i] = status[j]
      <4>1. i \in 1 .. n - (k + 1) + 1 /\ (k + 1) + i - 1 \in 1 .. n BY <3>1, <3>3, <3>5, <3>6
      <4> QED BY <3>2, <4>1
    <3>8. Len(q) <= n BY <3>5, <3>6
    <3>9. q \in Seq(StatusFrames) BY <3>2
    <3>10. DOMAIN status = 1 .. n BY <1>1 DEF n
    <3>11. n = Len(status) BY DEF n
    <3> QED BY ONLY <3>4, <3>7, <3>8, <3>9, <3>10, <3>11
  <2>10. Told' => Told BY <2>2, <2>7, <2>9 DEF Told
  <2> QED BY <2>1, <2>2, <2>7, <2>8, <2>9, <2>10
<1> QED BY <1>2, <1>3 DEF Pump

USE DEF WatchdogInv, ownSideFrame, serviceVars, closeVars, startVars, pipeVars, closeFrame, helperFrame, helperVars, TreeGone, Told

LEMMA LifetimeEndsKeeps ==
  ASSUME WatchdogInv, LifetimeEnds
  PROVE  WatchdogInv'
<1>1. EnvShape' /\ ServiceShape' /\ HelperShape' /\ PipeShape'
  BY DEF LifetimeEnds, EnvShape, ServiceShape, HelperShape, PipeShape
<1>2. StartShape' /\ CloseShape' /\ FramesAreFew' /\ HelperKnows'
  BY DEF LifetimeEnds, StartShape, CloseShape, FramesAreFew, HelperKnows
<1>3. QuietIsFinal' /\ HandedOver' /\ Authorized'
  BY DEF LifetimeEnds, QuietIsFinal, HandedOver, Authorized
<1> QED BY <1>1, <1>2, <1>3

LEMMA CallerCrashesKeeps ==
  ASSUME WatchdogInv, CallerCrashes
  PROVE  WatchdogInv'
<1>1. EnvShape'
  <2>1. EnvShape OBVIOUS
  <2>2. faults' = faults \/ Fault BY DEF CallerCrashes
  <2>3. faults' \in 0..MaxFaults BY <2>1, <2>2, FaultIsCounted DEF EnvShape
  <2> QED BY <2>1, <2>3 DEF EnvShape, CallerCrashes
<1>2. ServiceShape' /\ StartShape' /\ CloseShape' /\ QuietIsFinal'
  BY DEF CallerCrashes, ServiceShape, StartShape, CloseShape, QuietIsFinal
<1>3. HelperShape' BY DEF CallerCrashes, HelperShape
<1>4. PipeShape' BY DEF CallerCrashes, Fault, PipeShape, HelperShape, ServiceShape
<1>5. FramesAreFew'
  BY DEF CallerCrashes, Fault, FramesAreFew, PipeShape, HelperShape, Helpers, ServiceShape,
     HelperKnows, StartShape, HandedOver
<1>6. HelperKnows' BY DEF CallerCrashes, HelperKnows
<1>7. HandedOver' /\ Authorized' BY DEF CallerCrashes, HandedOver, Authorized
<1> QED BY <1>1, <1>2, <1>3, <1>4, <1>5, <1>6, <1>7

LEMMA HelperSignalledKeeps ==
  ASSUME WatchdogInv, HelperSignalled
  PROVE  WatchdogInv'
<1>1. EnvShape'
  <2>1. EnvShape OBVIOUS
  <2>2. faults' = faults \/ Fault BY DEF HelperSignalled
  <2>3. faults' \in 0..MaxFaults BY <2>1, <2>2, FaultIsCounted DEF EnvShape
  <2> QED BY <2>1, <2>3 DEF EnvShape, HelperSignalled
<1>2. ServiceShape' /\ StartShape' /\ CloseShape' /\ Authorized'
  BY DEF HelperSignalled, Fault, ServiceShape, StartShape, CloseShape, Authorized
<1>3. HelperShape' BY DEF HelperSignalled, Fault, HelperShape, Helpers, ServiceShape
<1>4. PipeShape' BY DEF HelperSignalled, PipeShape
<1>5. FramesAreFew'
  BY DEF HelperSignalled, Fault, FramesAreFew, PipeShape, HelperShape, Helpers,
     ServiceShape, HelperKnows, StartShape, HandedOver
<1>6. HelperKnows'
  BY DEF HelperSignalled, Fault, HelperKnows, ServiceShape, HelperShape, Helpers, HandedOver
<1>7. QuietIsFinal'
  BY DEF HelperSignalled, Fault, QuietIsFinal, HelperKnows, HelperShape, ServiceShape,
     PipeShape, StartShape, HandedOver, CloseShape
<1>8. HandedOver'
  BY DEF HelperSignalled, Fault, HandedOver, StartShape, Authorized, HelperShape, Helpers
<1> QED BY <1>1, <1>2, <1>3, <1>4, <1>5, <1>6, <1>7, <1>8

LEMMA ServiceStartsKeeps ==
  ASSUME WatchdogInv, ServiceStarts
  PROVE  WatchdogInv'
<1>1. EnvShape' /\ ServiceShape' /\ HelperShape' /\ PipeShape'
  BY DEF ServiceStarts, EnvShape, envVars, ServiceShape, HelperShape, PipeShape
<1>2. StartShape' /\ CloseShape' /\ Authorized'
  BY DEF ServiceStarts, StartShape, CloseShape, Authorized
<1>3. FramesAreFew'
  BY DEF ServiceStarts, FramesAreFew, PipeShape, HelperShape, Helpers, ServiceShape,
     HelperKnows, StartShape, HandedOver
<1>4. HelperKnows'
  BY DEF ServiceStarts, HelperKnows, ServiceShape, HelperShape, Helpers, HandedOver
<1>5. QuietIsFinal'
  BY DEF ServiceStarts, QuietIsFinal, HelperKnows, HelperShape, ServiceShape, PipeShape,
     StartShape, HandedOver, CloseShape
<1>6. HandedOver' BY DEF ServiceStarts, HandedOver, StartShape, Authorized, HelperShape, Helpers
<1> QED BY <1>1, <1>2, <1>3, <1>4, <1>5, <1>6

LEMMA ServiceRunsKeeps ==
  ASSUME WatchdogInv, ServiceRuns
  PROVE  WatchdogInv'
<1>1. EnvShape' /\ CloseShape' /\ Authorized'
  BY DEF ServiceRuns, EnvShape, envVars, CloseShape, Authorized
<1>2. ServiceShape' BY DEF ServiceRuns, ServiceShape
<1>3. HelperShape' BY DEF ServiceRuns, HelperShape
<1>4. PipeShape' BY DEF ServiceRuns, PipeShape
<1>5. StartShape' BY DEF ServiceRuns, StartShape
<1>6. FramesAreFew'
  BY DEF ServiceRuns, FramesAreFew, PipeShape, HelperShape, Helpers, ServiceShape,
     HelperKnows, StartShape, HandedOver
<1>7. HelperKnows'
  BY DEF ServiceRuns, HelperKnows, ServiceShape, HelperShape, Helpers, HandedOver
<1>8. QuietIsFinal'
  BY DEF ServiceRuns, QuietIsFinal, HelperKnows, HelperShape, ServiceShape, PipeShape,
     StartShape, HandedOver, CloseShape
<1>9. HandedOver' BY DEF ServiceRuns, HandedOver, StartShape, Authorized, HelperShape, Helpers
<1> QED BY <1>1, <1>2, <1>3, <1>4, <1>5, <1>6, <1>7, <1>8, <1>9

LEMMA ReadConfigKeeps ==
  ASSUME WatchdogInv, ReadConfig
  PROVE  WatchdogInv'
<1>a. EnvShape /\ HelperShape /\ PipeShape OBVIOUS
<1> USE <1>a
<1>b. /\ helper.pc = "config"
      /\ helper' = [helper EXCEPT !.pc = "fork"] \/ helper' = Leave(helper, "startup_error")
      /\ control' = control \/ (control # <<>> /\ control' = Tail(control))
      /\ faults' = faults \/ Fault
  <2>1. NextFrame = "CONFIG" => control # <<>> BY DEF NextFrame
  <2> QED BY <2>1 DEF ReadConfig
<1> USE <1>b
<1>c. UNCHANGED <<lapsed, callerAlive, helperKilled, controlOpen, tr, op, worker, starter,
                  slot, close, closer, service, group, exec, term, status>>
  BY DEF ReadConfig
<1> USE <1>c
<1>d. /\ helper' \in Helpers /\ helper'.pc \in {"fork", "signal", "publish"}
      /\ (helper'.pc = "signal" => helper.owned) /\ helper'.owned = helper.owned
      /\ helper'.ready = helper.ready
  <2>1. helper \in Helpers BY DEF HelperShape
  <2>2. CASE helper' = [helper EXCEPT !.pc = "fork"] BY <2>1, <2>2 DEF Helpers
  <2>3. CASE helper' = Leave(helper, "startup_error")
    <3>1. "startup_error" \in Triggers /\ helper.owned \in BOOLEAN BY <2>1 DEF Triggers, Helpers
    <3>2. /\ helper' \in Helpers /\ helper'.pc = IF helper.owned THEN "signal" ELSE "publish"
          /\ helper'.owned = helper.owned /\ helper'.ready = helper.ready
      BY <2>1, <2>3, <3>1, LeaveIs
    <3> QED BY <3>1, <3>2
  <2> QED BY <2>2, <2>3
<1> USE <1>d
<1>e. /\ control' \in Seq({"CONFIG", "PARTIAL", "CANCEL"}) /\ Len(control') <= Len(control)
      /\ Len(control') \in Nat /\ Len(control) \in Nat /\ (control = <<>> => control' = <<>>)
  <2>1. control \in Seq({"CONFIG", "PARTIAL", "CANCEL"}) BY DEF PipeShape
  <2>2. control' \in Seq({"CONFIG", "PARTIAL", "CANCEL"}) /\ Len(control') <= Len(control)
    BY <2>1, LenProperties, FrameIsTaken
  <2> QED BY <2>1, <2>2, LenProperties
<1>f. faults' \in 0..MaxFaults BY FaultIsCounted DEF EnvShape
<1>1. EnvShape' /\ ServiceShape' /\ HelperShape' /\ PipeShape'
  BY <1>e, <1>f DEF EnvShape, ServiceShape, HelperShape, Helpers, PipeShape
<1>2. StartShape' /\ CloseShape' /\ HelperKnows'
  BY <1>e, <1>f DEF StartShape, CloseShape, HelperKnows, ServiceShape, HelperShape, Helpers,
     HandedOver
<1>3. FramesAreFew'
  BY <1>e, <1>f DEF FramesAreFew, PipeShape, HelperShape, Helpers, ServiceShape,
     HelperKnows, StartShape, HandedOver
<1>4. QuietIsFinal'
  BY <1>e, <1>f DEF QuietIsFinal, HelperKnows, HelperShape, ServiceShape, PipeShape,
     StartShape, HandedOver, CloseShape
<1>5. HandedOver'
  <2>1. HandedOver /\ HelperKnows OBVIOUS
  <2>2. control' = <<>> \/ control # <<>> BY <1>e
  <2>3. helper'.pc \in {"fork", "publish"} BY <2>1 DEF HelperKnows
  <2>4. helper'.pc = "fork" => control # <<>>
    <3>1. "fork" # "publish" /\ "startup_error" \in Triggers /\ helper \in Helpers
      BY DEF Triggers, HelperShape
    <3>2. helper' = Leave(helper, "startup_error") => helper'.pc # "fork" BY <3>1, LeaveIs
    <3>3. NextFrame = "CONFIG" => control # <<>> BY DEF NextFrame
    <3>4. helper' # Leave(helper, "startup_error") => NextFrame = "CONFIG" BY DEF ReadConfig
    <3> QED BY <3>2, <3>3, <3>4
  <2> QED BY <2>1, <2>2, <2>3, <2>4, <1>e DEF HandedOver
<1>6. Authorized'
  BY WatchdogAssumption, <1>e, <1>f DEF Authorized, StartShape, CloseShape, HandedOver
<1> QED BY <1>1, <1>2, <1>3, <1>4, <1>5, <1>6

LEMMA ForkKeeps ==
  ASSUME WatchdogInv, Fork
  PROVE  WatchdogInv'
<1>a. EnvShape /\ helper \in Helpers BY DEF HelperShape
<1> USE <1>a
<1>b. /\ helper.pc = "fork" /\ service' \in {"none", "held", "doomed"}
      /\ helper' \in Helpers /\ helper'.ready = helper.ready
      /\ helper'.pc \in {"handshake", "settle", "signal"}
      /\ helper'.pc = "handshake" <=> service' = "held"
      /\ helper'.pc = "signal" => service' = "doomed"
      /\ faults' = faults \/ Fault
  <2>1. [helper EXCEPT !.owned = TRUE] \in Helpers /\ "startup_error" \in Triggers
    BY DEF Helpers, Triggers
  <2> DEFINE h == [helper EXCEPT !.owned = TRUE]
  <2>2. h.owned /\ h.ready = helper.ready BY DEF Helpers
  <2> HIDE DEF h
  <2>3. CASE service' = "held" /\ helper' = [helper EXCEPT !.pc = "handshake"]
    BY <2>3 DEF Helpers, Fork
  <2>4. CASE /\ service' \in {"none", "doomed"}
             /\ helper' = [helper EXCEPT !.pc = "settle", !.trigger = "startup_error"]
    BY <2>1, <2>4 DEF Helpers, Fork
  <2>5. CASE service' = "doomed" /\ helper' = Leave(h, "startup_error")
    BY <2>1, <2>2, <2>5, LeaveIs DEF Fork, h
  <2> QED BY <2>3, <2>4, <2>5 DEF Fork, h
<1> USE <1>b
<1>c. UNCHANGED <<lapsed, callerAlive, helperKilled, controlOpen, tr, op, worker, starter,
                  slot, close, closer, group, exec, term, control, status>>
  BY DEF Fork
<1> USE <1>c
<1>d. faults' \in 0..MaxFaults BY FaultIsCounted DEF EnvShape
<1> USE <1>d
<1>1. EnvShape' /\ ServiceShape' /\ HelperShape' /\ PipeShape'
  BY DEF EnvShape, ServiceShape, HelperShape, Helpers, PipeShape
<1>2. StartShape' /\ CloseShape' /\ HelperKnows'
  BY DEF StartShape, CloseShape, HelperKnows, ServiceShape, HelperShape, Helpers, HandedOver
<1>3. FramesAreFew'
  BY DEF FramesAreFew, PipeShape, HelperShape, Helpers, ServiceShape, HelperKnows,
     StartShape, HandedOver
<1>4. QuietIsFinal'
  BY DEF QuietIsFinal, HelperKnows, HelperShape, ServiceShape, PipeShape, StartShape,
     HandedOver, CloseShape
<1>5. HandedOver' BY DEF HandedOver, StartShape, Authorized, HelperShape, Helpers
<1>6. Authorized' BY WatchdogAssumption DEF Authorized, StartShape, CloseShape, HandedOver
<1> QED BY <1>1, <1>2, <1>3, <1>4, <1>5, <1>6

LEMMA SettleUnknownChildKeeps ==
  ASSUME WatchdogInv, SettleUnknownChild
  PROVE  WatchdogInv'
<1>1. EnvShape' /\ ServiceShape' /\ HelperShape' /\ PipeShape'
  BY DEF SettleUnknownChild, EnvShape, ServiceShape, HelperShape, Helpers, PipeShape
<1>2. StartShape' /\ CloseShape' /\ Authorized'
  BY DEF SettleUnknownChild, StartShape, CloseShape, Authorized
<1>3. FramesAreFew'
  BY DEF SettleUnknownChild, FramesAreFew, PipeShape, HelperShape, Helpers, ServiceShape,
     HelperKnows, StartShape, HandedOver
<1>4. HelperKnows'
  BY DEF SettleUnknownChild, HelperKnows, ServiceShape, HelperShape, Helpers, HandedOver
<1>5. QuietIsFinal'
  BY DEF SettleUnknownChild, QuietIsFinal, HelperKnows, HelperShape, ServiceShape,
     PipeShape, StartShape, HandedOver, CloseShape
<1>6. HandedOver'
  BY DEF SettleUnknownChild, HandedOver, StartShape, Authorized, HelperShape, Helpers
<1> QED BY <1>1, <1>2, <1>3, <1>4, <1>5, <1>6

LEMMA HandshakeKeeps ==
  ASSUME WatchdogInv, Handshake
  PROVE  WatchdogInv'
<1>a. EnvShape /\ helper \in Helpers BY DEF HelperShape
<1> USE <1>a
<1>b. /\ helper.pc = "handshake" /\ service' \in {"armed", "doomed"}
      /\ helper' \in Helpers /\ helper'.ready = helper.ready /\ helper'.owned
      /\ helper'.pc \in {"watch", "signal"}
      /\ helper'.pc = "watch" => service' = "armed"
      /\ faults' = faults \/ Fault
  <2>1. [helper EXCEPT !.owned = TRUE] \in Helpers /\ "startup_error" \in Triggers
    BY DEF Helpers, Triggers
  <2> DEFINE h == [helper EXCEPT !.owned = TRUE]
  <2>2. h.owned /\ h.ready = helper.ready BY DEF Helpers
  <2> HIDE DEF h
  <2>3. CASE service' = "armed" /\ helper' = [helper EXCEPT !.owned = TRUE, !.pc = "watch"]
    BY <2>3 DEF Helpers, Handshake
  <2>4. CASE service' = "doomed" /\ helper' = Leave(h, "startup_error")
    BY <2>1, <2>2, <2>4, LeaveIs DEF Handshake, h
  <2> QED BY <2>3, <2>4 DEF Handshake, h
<1> USE <1>b
<1>c. UNCHANGED <<lapsed, callerAlive, helperKilled, controlOpen, tr, op, worker, starter,
                  slot, close, closer, group, exec, term, control, status>>
  BY DEF Handshake
<1> USE <1>c
<1>d. faults' \in 0..MaxFaults BY FaultIsCounted DEF EnvShape
<1> USE <1>d
<1>1. EnvShape' /\ ServiceShape' /\ HelperShape' /\ PipeShape'
  BY DEF EnvShape, ServiceShape, HelperShape, Helpers, PipeShape
<1>2. StartShape' /\ CloseShape' /\ HelperKnows'
  BY DEF StartShape, CloseShape, HelperKnows, ServiceShape, HelperShape, Helpers, HandedOver
<1>3. FramesAreFew'
  BY DEF FramesAreFew, PipeShape, HelperShape, Helpers, ServiceShape, HelperKnows,
     StartShape, HandedOver
<1>4. QuietIsFinal'
  BY DEF QuietIsFinal, HelperKnows, HelperShape, ServiceShape, PipeShape, StartShape,
     HandedOver, CloseShape
<1>5. HandedOver' BY DEF HandedOver, StartShape, Authorized, HelperShape, Helpers
<1>6. Authorized' BY WatchdogAssumption DEF Authorized, StartShape, CloseShape, HandedOver
<1> QED BY <1>1, <1>2, <1>3, <1>4, <1>5, <1>6

LEMMA WatchTestsKeeps ==
  ASSUME WatchdogInv, WatchTests
  PROVE  WatchdogInv'
<1>a. EnvShape /\ helper \in Helpers BY DEF HelperShape
<1> USE <1>a
<1>b. /\ helper.pc = "watch" /\ helper' \in Helpers /\ helper'.ready = helper.ready
      /\ helper'.owned = helper.owned
      /\ helper'.pc = (IF helper.owned THEN "signal" ELSE "publish")
      /\ faults' = faults \/ Fault
  <2>1. PICK trigger \in {"signal", "deadline", "early_exit", "watchdog_error"} :
          helper' = Leave(helper, trigger)
    BY DEF WatchTests
  <2>2. trigger \in Triggers BY DEF Triggers
  <2> QED BY <2>1, <2>2, LeaveIs DEF WatchTests
<1> USE <1>b
<1>c. UNCHANGED <<lapsed, callerAlive, helperKilled, controlOpen, tr, op, worker, starter,
                  slot, close, closer, service, group, exec, term, control, status>>
  BY DEF WatchTests
<1> USE <1>c
<1>d. faults' \in 0..MaxFaults BY FaultIsCounted DEF EnvShape
<1> USE <1>d
<1>1. EnvShape' /\ ServiceShape' /\ HelperShape' /\ PipeShape'
  BY DEF EnvShape, ServiceShape, HelperShape, Helpers, PipeShape
<1>2. StartShape' /\ CloseShape' /\ HelperKnows'
  BY DEF StartShape, CloseShape, HelperKnows, ServiceShape, HelperShape, Helpers, HandedOver
<1>3. FramesAreFew'
  BY DEF FramesAreFew, PipeShape, HelperShape, Helpers, ServiceShape, HelperKnows,
     StartShape, HandedOver
<1>4. QuietIsFinal'
  BY DEF QuietIsFinal, HelperKnows, HelperShape, ServiceShape, PipeShape, StartShape,
     HandedOver, CloseShape
<1>5. HandedOver' BY DEF HandedOver, StartShape, Authorized, HelperShape, Helpers
<1>6. Authorized' BY WatchdogAssumption DEF Authorized, StartShape, CloseShape, HandedOver
<1> QED BY <1>1, <1>2, <1>3, <1>4, <1>5, <1>6

LEMMA WatchControlKeeps ==
  ASSUME WatchdogInv, WatchControl
  PROVE  WatchdogInv'
<1>a. EnvShape /\ helper \in Helpers /\ PipeShape BY DEF HelperShape
<1> USE <1>a
<1>b. /\ helper.pc = "watch" /\ helper' \in Helpers /\ helper'.ready = helper.ready
      /\ helper'.owned = helper.owned
      /\ helper'.pc = (IF helper.owned THEN "signal" ELSE "publish")
  <2>1. PICK trigger \in {"early_exit", "cancel", "parent_eof"} :
          helper' = Leave(helper, trigger)
    BY DEF WatchControl
  <2>2. trigger \in Triggers BY DEF Triggers
  <2> QED BY <2>1, <2>2, LeaveIs DEF WatchControl
<1> USE <1>b
<1>c. UNCHANGED <<lapsed, callerAlive, helperKilled, controlOpen, tr, op, worker, starter,
                  slot, close, closer, service, group, exec, term, faults, status>>
  BY DEF WatchControl
<1> USE <1>c
<1>d. /\ control' = <<>> /\ control' \in Seq({"CONFIG", "PARTIAL", "CANCEL"})
      /\ Len(control') = 0 /\ Len(control) \in Nat
  BY NothingIsSent, LenProperties DEF WatchControl, PipeShape
<1> USE <1>d
<1>1. EnvShape' /\ ServiceShape' /\ HelperShape' /\ PipeShape'
  BY DEF EnvShape, ServiceShape, HelperShape, Helpers, PipeShape
<1>2. StartShape' /\ CloseShape' /\ HelperKnows'
  BY DEF StartShape, CloseShape, HelperKnows, ServiceShape, HelperShape, Helpers, HandedOver
<1>3. FramesAreFew'
  BY DEF FramesAreFew, PipeShape, HelperShape, Helpers, ServiceShape, HelperKnows,
     StartShape, HandedOver
<1>4. QuietIsFinal'
  BY DEF QuietIsFinal, HelperKnows, HelperShape, ServiceShape, PipeShape, StartShape,
     HandedOver, CloseShape
<1>5. HandedOver' BY DEF HandedOver, StartShape, Authorized, HelperShape, Helpers
<1>6. Authorized' BY WatchdogAssumption DEF Authorized, StartShape, CloseShape, HandedOver
<1> QED BY <1>1, <1>2, <1>3, <1>4, <1>5, <1>6

LEMMA WatchExecKeeps ==
  ASSUME WatchdogInv, WatchExec
  PROVE  WatchdogInv'
<1>a. helper \in Helpers /\ PipeShape BY DEF HelperShape
<1> USE <1>a
<1>b. /\ helper.pc = "watch" /\ helper' \in Helpers /\ helper'.owned = helper.owned
      /\ helper'.pc \in {"watch", IF helper.owned THEN "signal" ELSE "publish"}
      /\ helper'.ready = (helper.ready \/ exec = "eof")
      /\ exec \in {"eof", "error"} /\ exec' = "read"
  <2>1. [helper EXCEPT !.ready = TRUE] \in Helpers
        /\ {"exec_failure", "status_error"} \subseteq Triggers
    BY DEF Helpers, Triggers
  <2> DEFINE h == [helper EXCEPT !.ready = TRUE]
  <2>2. h.ready /\ h.owned = helper.owned /\ h.pc = helper.pc BY DEF Helpers
  <2> HIDE DEF h
  <2>3. CASE exec = "error" /\ helper' = Leave(helper, "exec_failure")
    <3>1. "exec_failure" \in Triggers BY DEF Triggers
    <3>2. /\ helper' \in Helpers /\ helper'.pc = IF helper.owned THEN "signal" ELSE "publish"
          /\ helper'.owned = helper.owned /\ helper'.ready = helper.ready
      BY <2>3, <3>1, LeaveIs
    <3> QED BY <2>3, <3>2 DEF WatchExec, Helpers
  <2>4. CASE exec = "eof" /\ helper' = h BY <2>1, <2>2, <2>4 DEF WatchExec, h
  <2>5. CASE exec = "eof" /\ helper' = Leave(h, "status_error")
    <3>1. "status_error" \in Triggers /\ h \in Helpers BY <2>1 DEF Triggers, h
    <3>2. /\ helper' \in Helpers /\ helper'.pc = IF h.owned THEN "signal" ELSE "publish"
          /\ helper'.owned = h.owned /\ helper'.ready = h.ready
      BY <2>5, <3>1, LeaveIs
    <3> QED BY <2>2, <2>5, <3>2 DEF WatchExec
  <2> QED BY <2>3, <2>4, <2>5 DEF WatchExec, h
<1> USE <1>b
<1>c. UNCHANGED <<lapsed, callerAlive, helperKilled, controlOpen, tr, op, worker, starter,
                  slot, close, closer, faults, service, group, term, control>>
  BY DEF WatchExec
<1> USE <1>c
<1>d. /\ status' \in Seq(StatusFrames) /\ Len(status') \in Nat /\ Len(status) \in Nat
      /\ Len(status') <= Len(status) + (IF exec = "eof" THEN 1 ELSE 0)
      /\ Told' => Told
  <2>1. /\ [type |-> "READY"] \in StatusFrames /\ [type |-> "READY"].type # "QUIET"
        /\ status \in Seq(StatusFrames) /\ Len(status) \in Nat
    BY LenProperties DEF StatusFrames, PipeShape
  <2>2. CASE exec = "error" /\ status' = status BY <2>1, <2>2
  <2>3. CASE exec = "eof" /\ WriteStatus([type |-> "READY"])
    <3> DEFINE m == [type |-> "READY"]
    <3>1. m \in StatusFrames /\ m.type # "QUIET" /\ WriteStatus(m) BY <2>1, <2>3
    <3> HIDE DEF m
    <3>2. /\ status' \in Seq(StatusFrames) /\ Len(status') <= Len(status) + 1
          /\ \A i \in DOMAIN status' :
               status'[i] = m \/ \E j \in DOMAIN status : status'[i] = status[j]
      BY <3>1, FrameIsWritten
    <3>3. Told' => Told BY <3>1, <3>2
    <3> QED BY <2>1, <2>3, <3>2, <3>3, LenProperties
  <2> QED BY <2>2, <2>3 DEF WatchExec
<1> USE <1>d
<1>1. EnvShape' /\ ServiceShape' /\ HelperShape' /\ PipeShape'
  BY DEF EnvShape, ServiceShape, HelperShape, Helpers, PipeShape
<1>2. StartShape' /\ CloseShape' /\ HelperKnows'
  BY DEF StartShape, CloseShape, HelperKnows, ServiceShape, HelperShape, Helpers, HandedOver
<1>3. FramesAreFew'
  BY DEF FramesAreFew, PipeShape, HelperShape, Helpers, ServiceShape, HelperKnows,
     StartShape, HandedOver
<1>4. QuietIsFinal'
  BY DEF QuietIsFinal, HelperKnows, HelperShape, ServiceShape, PipeShape, StartShape,
     HandedOver, CloseShape
<1>5. HandedOver' BY DEF HandedOver, StartShape, Authorized, HelperShape, Helpers
<1>6. Authorized' BY WatchdogAssumption DEF Authorized, StartShape, CloseShape, HandedOver
<1> QED BY <1>1, <1>2, <1>3, <1>4, <1>5, <1>6

LEMMA SignalOwnedGroupKeeps ==
  ASSUME WatchdogInv, SignalOwnedGroup
  PROVE  WatchdogInv'
<1>a. EnvShape /\ HelperShape /\ ServiceShape OBVIOUS
<1> USE <1>a
<1>b. /\ helper.pc = "signal" /\ helper' = [helper EXCEPT !.pc = "observe"]
      /\ UNCHANGED <<lapsed, callerAlive, helperKilled, controlOpen, tr, op, worker, starter,
                     slot, close, closer, exec, control, status>>
  BY DEF SignalOwnedGroup
<1> USE <1>b
<1>c. \/ /\ ~term.uncertain /\ term' = Signalled(TRUE) /\ group' = FALSE
         /\ service' = IF service = "reaped" THEN service ELSE "zombie"
      \/ term' = Signalled(FALSE) /\ UNCHANGED <<service, group>>
      \/ UNCHANGED <<service, group, term>>
  BY DEF SignalOwnedGroup, KillServiceGroup
<1> USE <1>c
<1>d. \A delivered \in BOOLEAN :
        /\ Signalled(delivered) \in [entered : BOOLEAN, running : BOOLEAN, delivered : BOOLEAN,
               uncertain : BOOLEAN, debt : BOOLEAN, stray : BOOLEAN]
        /\ Signalled(delivered).uncertain = term.uncertain
        /\ Signalled(delivered).debt = term.debt
        /\ Signalled(delivered).stray = (term.stray \/ (delivered /\ service = "reaped"))
  BY DEF Signalled, ServiceExited, HelperShape
<1> USE <1>d
<1>e. faults' \in 0..MaxFaults
  <2>1. faults' = faults \/ Fault BY DEF SignalOwnedGroup
  <2> QED BY <2>1, FaultIsCounted DEF EnvShape
<1>1. EnvShape' /\ CloseShape' /\ HandedOver'
  BY <1>e DEF EnvShape, CloseShape, HandedOver, StartShape, Authorized, HelperShape, Helpers
<1>2. ServiceShape' BY <1>e DEF ServiceShape
<1>3. HelperShape' BY <1>e DEF HelperShape, Helpers, ServiceShape
<1>4. PipeShape' BY <1>e DEF PipeShape, HelperShape, ServiceShape
<1>5. StartShape' BY <1>e DEF StartShape
<1>6. FramesAreFew'
  BY <1>e DEF FramesAreFew, PipeShape, HelperShape, Helpers, ServiceShape, HelperKnows,
     StartShape, HandedOver
<1>7. HelperKnows'
  <2>1. HelperKnows OBVIOUS
  <2>2. helper'.pc = "observe" /\ helper'.owned = helper.owned BY DEF HelperShape, Helpers
  <2>3. service \notin {"none", "held"} /\ (service = "reaped" => term.uncertain) /\ ~term.stray
    BY <2>1 DEF HelperKnows
  <2>4. CASE /\ ~term.uncertain /\ term' = Signalled(TRUE) /\ group' = FALSE
             /\ service' = IF service = "reaped" THEN service ELSE "zombie"
    <3>1. service # "reaped" /\ service' = "zombie" /\ ~group' /\ ~term'.stray BY <2>3, <2>4
    <3> QED BY <2>2, <3>1 DEF HelperKnows
  <2>5. CASE term' = Signalled(FALSE) /\ UNCHANGED <<service, group>>
    <3>1. term'.uncertain = term.uncertain /\ ~term'.stray BY <2>3, <2>5
    <3> QED BY <2>1, <2>2, <2>3, <2>5, <3>1 DEF HelperKnows
  <2>6. CASE UNCHANGED <<service, group, term>> BY <2>1, <2>2, <2>3, <2>6 DEF HelperKnows
  <2> QED BY <2>4, <2>5, <2>6
<1>8. QuietIsFinal'
  BY <1>e DEF QuietIsFinal, HelperKnows, HelperShape, ServiceShape, PipeShape, StartShape,
     HandedOver, CloseShape
<1>9. Authorized' BY WatchdogAssumption, <1>e DEF Authorized, StartShape, CloseShape, HandedOver
<1> QED BY <1>1, <1>2, <1>3, <1>4, <1>5, <1>6, <1>7, <1>8, <1>9

LEMMA ObserveAndReapKeeps ==
  ASSUME WatchdogInv, ObserveAndReap
  PROVE  WatchdogInv'
<1>1. EnvShape'
  <2>1. EnvShape OBVIOUS
  <2>2. faults' = faults \/ Fault BY DEF ObserveAndReap
  <2>3. faults' \in 0..MaxFaults BY <2>1, <2>2, FaultIsCounted DEF EnvShape
  <2> QED BY <2>1, <2>3 DEF EnvShape, ObserveAndReap
<1>2. ServiceShape' /\ PipeShape' /\ StartShape'
  BY DEF ObserveAndReap, ServiceExited, LiveMember, Fault, ServiceShape, PipeShape,
     StartShape
<1>3. HelperShape'
  BY DEF ObserveAndReap, ServiceExited, LiveMember, Fault, HelperShape, Helpers,
     ServiceShape
<1>4. CloseShape' /\ Authorized' BY DEF ObserveAndReap, CloseShape, Authorized
<1>5. FramesAreFew'
  BY DEF ObserveAndReap, ServiceExited, LiveMember, Fault, FramesAreFew, PipeShape,
     HelperShape, Helpers, ServiceShape, HelperKnows, StartShape, HandedOver
<1>6. HelperKnows'
  BY DEF ObserveAndReap, ServiceExited, LiveMember, Fault, HelperKnows, ServiceShape,
     HelperShape, Helpers, HandedOver
<1>7. QuietIsFinal'
  BY DEF ObserveAndReap, ServiceExited, LiveMember, Fault, QuietIsFinal, HelperKnows,
     HelperShape, ServiceShape, PipeShape, StartShape, HandedOver, CloseShape
<1>8. HandedOver'
  BY DEF ObserveAndReap, ServiceExited, LiveMember, Fault, HandedOver, StartShape,
     Authorized, HelperShape, Helpers
<1> QED BY <1>1, <1>2, <1>3, <1>4, <1>5, <1>6, <1>7, <1>8

LEMMA NoticeDebtKeeps ==
  ASSUME WatchdogInv, NoticeDebt
  PROVE  WatchdogInv'
<1>a. HelperShape /\ PipeShape OBVIOUS
<1> USE <1>a
<1>b. /\ helper.pc = "observe" /\ ~term.debt /\ term' = [term EXCEPT !.debt = TRUE]
      /\ UNCHANGED <<lapsed, callerAlive, helperKilled, controlOpen, tr, op, worker, starter,
                     slot, close, closer, faults, service, group, exec, helper, control>>
  BY DEF NoticeDebt
<1> USE <1>b
<1>c. /\ status' \in Seq(StatusFrames) /\ Len(status') \in Nat /\ Len(status) \in Nat
      /\ Len(status') <= Len(status) + 1
      /\ Told' => Told
  <2> DEFINE m == [type |-> "DEBT"]
  <2>1. m \in StatusFrames /\ m.type # "QUIET" /\ WriteStatus(m) BY DEF StatusFrames, NoticeDebt
  <2> HIDE DEF m
  <2>2. /\ status' \in Seq(StatusFrames) /\ Len(status') <= Len(status) + 1
        /\ \A i \in DOMAIN status' :
             status'[i] = m \/ \E j \in DOMAIN status : status'[i] = status[j]
    BY <2>1, FrameIsWritten
  <2>3. Told' => Told BY <2>1, <2>2
  <2> QED BY <2>2, <2>3, LenProperties DEF PipeShape
<1> USE <1>c
<1>1. EnvShape' /\ ServiceShape' /\ StartShape' /\ CloseShape'
  BY DEF EnvShape, ServiceShape, StartShape, CloseShape
<1>2. HelperShape' BY DEF HelperShape, Helpers, ServiceShape
<1>3. PipeShape' BY DEF PipeShape, HelperShape, ServiceShape
<1>4. FramesAreFew'
  BY DEF FramesAreFew, PipeShape, HelperShape, Helpers, ServiceShape, HelperKnows,
     StartShape, HandedOver
<1>5. HelperKnows' BY DEF HelperKnows, ServiceShape, HelperShape, Helpers, HandedOver
<1>6. QuietIsFinal'
  BY DEF QuietIsFinal, HelperKnows, HelperShape, ServiceShape, PipeShape, StartShape,
     HandedOver, CloseShape
<1>7. HandedOver' BY DEF HandedOver, StartShape, Authorized, HelperShape, Helpers
<1>8. Authorized' BY WatchdogAssumption DEF Authorized, StartShape, CloseShape, HandedOver
<1> QED BY <1>1, <1>2, <1>3, <1>4, <1>5, <1>6, <1>7, <1>8

LEMMA PublishQuietKeeps ==
  ASSUME WatchdogInv, PublishQuiet
  PROVE  WatchdogInv'
<1>a. HelperShape /\ PipeShape OBVIOUS
<1> USE <1>a
<1>b. /\ helper.pc = "publish" /\ helper' = [helper EXCEPT !.pc = "exited"]
      /\ UNCHANGED <<lapsed, callerAlive, helperKilled, controlOpen, tr, op, worker, starter,
                     slot, close, closer, faults, service, group, exec, term, control>>
  BY DEF PublishQuiet
<1> USE <1>b
<1>c. /\ status' \in Seq(StatusFrames) /\ Len(status') \in Nat /\ Len(status) \in Nat
      /\ Len(status') <= Len(status) + 1
  <2> DEFINE cancelled == helper.trigger = "cancel" /\ term.running /\ term.delivered
             m == [type |-> "QUIET", ready |-> helper.ready, child |-> helper.owned,
                   cancelled |-> cancelled, trigger |-> helper.trigger]
  <2>1. WriteStatus(m) BY DEF PublishQuiet
  <2>2. cancelled \in BOOLEAN OBVIOUS
  <2> HIDE DEF cancelled
  <2>3. m \in StatusFrames BY <2>2 DEF StatusFrames, QuietFrames, HelperShape, Helpers
  <2> HIDE DEF m
  <2>4. status' \in Seq(StatusFrames) /\ Len(status') <= Len(status) + 1
    BY <2>1, <2>3, FrameIsWritten
  <2> QED BY <2>4, LenProperties DEF PipeShape
<1> USE <1>c
<1>1. EnvShape' /\ ServiceShape' /\ HelperShape' /\ PipeShape'
  BY DEF EnvShape, ServiceShape, HelperShape, Helpers, PipeShape
<1>2. StartShape' /\ CloseShape' /\ HelperKnows'
  BY DEF StartShape, CloseShape, HelperKnows, ServiceShape, HelperShape, Helpers, HandedOver
<1>3. FramesAreFew'
  BY DEF FramesAreFew, PipeShape, HelperShape, Helpers, ServiceShape, HelperKnows,
     StartShape, HandedOver
<1>4. QuietIsFinal'
  BY DEF QuietIsFinal, HelperKnows, HelperShape, ServiceShape, PipeShape, StartShape,
     HandedOver, CloseShape
<1>5. HandedOver' BY DEF HandedOver, StartShape, Authorized, HelperShape, Helpers
<1>6. Authorized' BY WatchdogAssumption DEF Authorized, StartShape, CloseShape, HandedOver
<1> QED BY <1>1, <1>2, <1>3, <1>4, <1>5, <1>6

LEMMA WorkerSpawnsKeeps ==
  ASSUME WatchdogInv, WorkerSpawns
  PROVE  WatchdogInv'
<1>1. EnvShape'
  <2>1. EnvShape OBVIOUS
  <2>2. faults' = faults \/ Fault BY DEF WorkerSpawns
  <2>3. faults' \in 0..MaxFaults BY <2>1, <2>2, FaultIsCounted DEF EnvShape
  <2> QED BY <2>1, <2>3 DEF EnvShape, WorkerSpawns
<1>2. ServiceShape' BY DEF WorkerSpawns, ServiceShape
<1>3. HelperShape' BY DEF WorkerSpawns, Fault, HelperShape, Helpers, ServiceShape
<1>4. PipeShape' BY DEF WorkerSpawns, PipeShape
<1>5. StartShape' BY DEF WorkerSpawns, Fault, StartShape
<1>6. CloseShape' BY DEF WorkerSpawns, CloseShape
<1>7. FramesAreFew'
  BY DEF WorkerSpawns, Fault, FramesAreFew, PipeShape, HelperShape, Helpers, ServiceShape,
     HelperKnows, StartShape, HandedOver
<1>8. HelperKnows'
  BY DEF WorkerSpawns, Fault, HelperKnows, ServiceShape, HelperShape, Helpers, HandedOver
<1>9. QuietIsFinal'
  BY DEF WorkerSpawns, Fault, QuietIsFinal, HelperKnows, HelperShape, ServiceShape,
     PipeShape, StartShape, HandedOver, CloseShape
<1>10. HandedOver'
  BY DEF WorkerSpawns, Fault, HandedOver, StartShape, Authorized, HelperShape, Helpers
<1>11. Authorized'
  BY WatchdogAssumption DEF WorkerSpawns, Fault, Authorized, StartShape, CloseShape,
     HandedOver
<1> QED BY <1>1, <1>2, <1>3, <1>4, <1>5, <1>6, <1>7, <1>8, <1>9, <1>10, <1>11

LEMMA WorkerPublishesKeeps ==
  ASSUME WatchdogInv, WorkerPublishes
  PROVE  WatchdogInv'
<1>1. EnvShape'
  <2>1. EnvShape OBVIOUS
  <2>2. faults' = faults \/ Fault BY DEF WorkerPublishes
  <2>3. faults' \in 0..MaxFaults BY <2>1, <2>2, FaultIsCounted DEF EnvShape
  <2> QED BY <2>1, <2>3 DEF EnvShape, WorkerPublishes
<1>2. ServiceShape' BY DEF WorkerPublishes, ServiceShape
<1>3. HelperShape' BY DEF WorkerPublishes, HelperShape
<1>4. PipeShape' BY DEF WorkerPublishes, PipeShape
<1>5. StartShape' BY DEF WorkerPublishes, Fault, StartShape
<1>6. CloseShape' /\ FramesAreFew' BY DEF WorkerPublishes, CloseShape, FramesAreFew
<1>7. HelperKnows'
  BY DEF WorkerPublishes, Fault, HelperKnows, ServiceShape, HelperShape, Helpers, HandedOver
<1>8. QuietIsFinal'
  BY DEF WorkerPublishes, Fault, QuietIsFinal, HelperKnows, HelperShape, ServiceShape,
     PipeShape, StartShape, HandedOver, CloseShape
<1>9. HandedOver'
  BY DEF WorkerPublishes, Fault, HandedOver, StartShape, Authorized, HelperShape, Helpers
<1>10. Authorized'
  BY WatchdogAssumption DEF WorkerPublishes, Fault, Authorized, StartShape, CloseShape,
     HandedOver
<1> QED BY <1>1, <1>2, <1>3, <1>4, <1>5, <1>6, <1>7, <1>8, <1>9, <1>10

LEMMA WorkerScrapsKeeps ==
  ASSUME WatchdogInv, WorkerScraps
  PROVE  WatchdogInv'
<1>1. EnvShape' /\ ServiceShape' /\ HelperShape' /\ StartShape'
  BY DEF WorkerScraps, EnvShape, ServiceShape, HelperShape, StartShape
<1>2. PipeShape'
  <2>1. PipeShape /\ tr \in Transports BY DEF PipeShape
  <2>2. tr' = tr \/ tr' = [tr EXCEPT !.reaped = TRUE, !.finalized = TRUE] BY DEF WorkerScraps
  <2>3. tr' \in Transports BY <2>1, <2>2 DEF Transports
  <2> QED BY <2>1, <2>3 DEF PipeShape, WorkerScraps
<1>3. CloseShape' BY DEF WorkerScraps, CloseShape
<1>4. FramesAreFew'
  BY DEF WorkerScraps, FramesAreFew, PipeShape, HelperShape, Helpers, ServiceShape,
     HelperKnows, StartShape, HandedOver
<1>5. HelperKnows'
  BY DEF WorkerScraps, HelperKnows, ServiceShape, HelperShape, Helpers, HandedOver
<1>6. QuietIsFinal'
  <2>1. QuietIsFinal /\ HandedOver /\ HelperShape /\ HelperKnows /\ StartShape /\ tr \in Transports
    BY DEF PipeShape
  <2>2. tr' = tr \/ tr' = [tr EXCEPT !.reaped = TRUE, !.finalized = TRUE] BY DEF WorkerScraps
  <2>3. tr'.quiet = tr.quiet /\ UNCHANGED <<status, service, group, helper, close>>
    BY <2>1, <2>2 DEF Transports, WorkerScraps
  <2>4. service = "none" /\ ~group BY <2>1 DEF HandedOver, HelperKnows, WorkerScraps
  <2>5. worker' = "done" => helper.pc = "exited" BY DEF WorkerScraps
  <2> QED BY <2>1, <2>3, <2>4, <2>5 DEF QuietIsFinal
<1>7. HandedOver' BY DEF WorkerScraps, HandedOver, StartShape, Authorized, HelperShape, Helpers
<1>8. Authorized'
  BY WatchdogAssumption DEF WorkerScraps, Authorized, StartShape, CloseShape, HandedOver
<1> QED BY <1>1, <1>2, <1>3, <1>4, <1>5, <1>6, <1>7, <1>8

LEMMA WorkerDecidesKeeps ==
  ASSUME WatchdogInv, WorkerDecides
  PROVE  WatchdogInv'
<1>1. EnvShape' /\ ServiceShape' /\ HelperShape' /\ PipeShape'
  BY DEF WorkerDecides, EnvShape, ServiceShape, HelperShape, PipeShape
<1>2. StartShape' /\ CloseShape' /\ FramesAreFew'
  BY DEF WorkerDecides, StartShape, CloseShape, FramesAreFew
<1>3. HelperKnows'
  BY DEF WorkerDecides, HelperKnows, ServiceShape, HelperShape, Helpers, HandedOver
<1>4. QuietIsFinal'
  BY DEF WorkerDecides, QuietIsFinal, HelperKnows, HelperShape, ServiceShape, PipeShape,
     StartShape, HandedOver, CloseShape
<1>5. HandedOver' BY DEF WorkerDecides, HandedOver, StartShape, Authorized, HelperShape, Helpers
<1>6. Authorized'
  BY WatchdogAssumption DEF WorkerDecides, Authorized, StartShape, CloseShape, HandedOver
<1> QED BY <1>1, <1>2, <1>3, <1>4, <1>5, <1>6

LEMMA WorkerCancelsKeeps ==
  ASSUME WatchdogInv, WorkerCancels
  PROVE  WatchdogInv'
<1>1. EnvShape' /\ ServiceShape' /\ HelperShape' /\ StartShape'
  BY DEF WorkerCancels, EnvShape, ServiceShape, HelperShape, StartShape
<1>2. PipeShape'
  <2>1. PipeShape OBVIOUS
  <2>2. control' \in {control, Append(control, "CANCEL")} BY DEF WorkerCancels
  <2>3. control' \in Seq({"CONFIG", "PARTIAL", "CANCEL"})
    BY <2>1, <2>2, FrameIsSent DEF PipeShape
  <2>4. controlOpen' \in BOOLEAN /\ UNCHANGED <<status, tr>>
    BY <2>1 DEF PipeShape, WorkerCancels
  <2> QED BY <2>1, <2>3, <2>4 DEF PipeShape
<1>3. CloseShape' BY DEF WorkerCancels, CloseShape
<1>4. FramesAreFew'
  BY DEF WorkerCancels, FramesAreFew, PipeShape, HelperShape, Helpers, ServiceShape,
     HelperKnows, StartShape, HandedOver
<1>5. HelperKnows'
  BY DEF WorkerCancels, HelperKnows, ServiceShape, HelperShape, Helpers, HandedOver
<1>6. QuietIsFinal'
  BY DEF WorkerCancels, QuietIsFinal, HelperKnows, HelperShape, ServiceShape, PipeShape,
     StartShape, HandedOver, CloseShape
<1>7. HandedOver' BY DEF WorkerCancels, HandedOver, StartShape, Authorized, HelperShape, Helpers
<1>8. Authorized'
  BY WatchdogAssumption DEF WorkerCancels, Authorized, StartShape, CloseShape, HandedOver
<1> QED BY <1>1, <1>2, <1>3, <1>4, <1>5, <1>6, <1>7, <1>8

LEMMA WorkerDrainsKeeps ==
  ASSUME WatchdogInv, WorkerDrains
  PROVE  WatchdogInv'
<1>a. PipeShape OBVIOUS
<1> USE <1>a
<1>b. /\ control' = control
      /\ controlOpen' \in BOOLEAN /\ (controlOpen' => controlOpen)
      /\ status' \in Seq(StatusFrames) /\ Len(status') <= Len(status)
      /\ tr' \in Transports
      /\ tr.quiet # NoQuiet => tr'.quiet = tr.quiet
      /\ Told' => Told
  BY PumpKeeps DEF WorkerDrains
<1> USE <1>b
<1>c. Len(control) \in Nat /\ Len(status) \in Nat /\ Len(status') \in Nat
  BY LenProperties DEF PipeShape
<1> USE <1>c
<1>1. EnvShape' /\ ServiceShape' /\ HelperShape' /\ PipeShape'
  BY DEF WorkerDrains, EnvShape, ServiceShape, HelperShape, CleanupComplete, PipeShape
<1>2. StartShape' /\ CloseShape' BY DEF WorkerDrains, CleanupComplete, StartShape, CloseShape
<1>3. FramesAreFew'
  BY DEF WorkerDrains, CleanupComplete, FramesAreFew, PipeShape, HelperShape, Helpers,
     ServiceShape, HelperKnows, StartShape, HandedOver
<1>4. HelperKnows'
  BY DEF WorkerDrains, CleanupComplete, HelperKnows, ServiceShape, HelperShape, Helpers,
     HandedOver
<1>5. QuietIsFinal'
  BY DEF WorkerDrains, CleanupComplete, QuietIsFinal, HelperKnows, HelperShape,
     ServiceShape, PipeShape, StartShape, HandedOver, CloseShape
<1>6. HandedOver'
  BY DEF WorkerDrains, CleanupComplete, HandedOver, StartShape, Authorized, HelperShape,
     Helpers
<1>7. Authorized'
  BY WatchdogAssumption DEF WorkerDrains, CleanupComplete, Authorized, StartShape,
     CloseShape, HandedOver
<1> QED BY <1>1, <1>2, <1>3, <1>4, <1>5, <1>6, <1>7

LEMMA StarterLaunchesKeeps ==
  ASSUME WatchdogInv, StarterLaunches
  PROVE  WatchdogInv'
<1>1. EnvShape'
  <2>1. EnvShape OBVIOUS
  <2>2. faults' = faults \/ Fault BY DEF StarterLaunches
  <2>3. faults' \in 0..MaxFaults BY <2>1, <2>2, FaultIsCounted DEF EnvShape
  <2> QED BY <2>1, <2>3 DEF EnvShape, StarterLaunches
<1>2. ServiceShape' BY DEF StarterLaunches, ServiceShape
<1>3. HelperShape' BY DEF StarterLaunches, HelperShape
<1>4. PipeShape' BY DEF StarterLaunches, PipeShape
<1>5. StartShape' BY DEF StarterLaunches, Fault, StartShape
<1>6. CloseShape' BY DEF StarterLaunches, CloseShape
<1>7. FramesAreFew'
  BY DEF StarterLaunches, Fault, FramesAreFew, PipeShape, HelperShape, Helpers,
     ServiceShape, HelperKnows, StartShape, HandedOver
<1>8. HelperKnows'
  BY DEF StarterLaunches, Fault, HelperKnows, ServiceShape, HelperShape, Helpers, HandedOver
<1>9. QuietIsFinal'
  BY DEF StarterLaunches, Fault, QuietIsFinal, HelperKnows, HelperShape, ServiceShape,
     PipeShape, StartShape, HandedOver, CloseShape
<1>10. HandedOver'
  BY DEF StarterLaunches, Fault, HandedOver, StartShape, Authorized, HelperShape, Helpers
<1>11. Authorized'
  BY WatchdogAssumption DEF StarterLaunches, Fault, Authorized, StartShape, CloseShape,
     HandedOver
<1> QED BY <1>1, <1>2, <1>3, <1>4, <1>5, <1>6, <1>7, <1>8, <1>9, <1>10, <1>11

LEMMA StarterClaimsKeeps ==
  ASSUME WatchdogInv, StarterClaims
  PROVE  WatchdogInv'
<1>1. EnvShape' /\ CloseShape' BY DEF StarterClaims, EnvShape, CloseShape
<1>2. ServiceShape' BY DEF StarterClaims, ServiceShape
<1>3. HelperShape' BY DEF StarterClaims, HelperShape
<1>4. PipeShape' BY DEF StarterClaims, PipeShape
<1>5. StartShape' BY DEF StarterClaims, StartShape
<1>6. FramesAreFew'
  BY DEF StarterClaims, FramesAreFew, PipeShape, HelperShape, Helpers, ServiceShape,
     HelperKnows, StartShape, HandedOver
<1>7. HelperKnows' BY DEF StarterClaims, HelperKnows
<1>8. QuietIsFinal'
  BY DEF StarterClaims, QuietIsFinal, HelperKnows, HelperShape, ServiceShape, PipeShape,
     StartShape, HandedOver, CloseShape
<1>9. HandedOver' BY DEF StarterClaims, HandedOver, StartShape, Authorized, HelperShape, Helpers
<1>10. Authorized'
  BY WatchdogAssumption DEF StarterClaims, Authorized, StartShape, CloseShape, HandedOver
<1> QED BY <1>1, <1>2, <1>3, <1>4, <1>5, <1>6, <1>7, <1>8, <1>9, <1>10

LEMMA StarterConfiguresKeeps ==
  ASSUME WatchdogInv, StarterConfigures
  PROVE  WatchdogInv'
<1>1. EnvShape'
  <2>1. EnvShape OBVIOUS
  <2>2. faults' = faults \/ Fault BY DEF StarterConfigures
  <2>3. faults' \in 0..MaxFaults BY <2>1, <2>2, FaultIsCounted DEF EnvShape
  <2> QED BY <2>1, <2>3 DEF EnvShape, StarterConfigures
<1>2. ServiceShape' /\ HelperShape' /\ StartShape' /\ CloseShape'
  BY DEF StarterConfigures, ServiceShape, HelperShape, CanWrite, Fault, StartShape,
     CloseShape
<1>3. PipeShape'
  <2>1. PipeShape OBVIOUS
  <2>2. control' \in {control, Append(control, "CONFIG"), Append(control, "PARTIAL")}
    BY DEF StarterConfigures
  <2>3. control' \in Seq({"CONFIG", "PARTIAL", "CANCEL"})
    BY <2>1, <2>2, FrameIsSent DEF PipeShape
  <2>4. controlOpen' \in BOOLEAN /\ UNCHANGED <<status, tr>>
    BY <2>1 DEF PipeShape, StarterConfigures
  <2> QED BY <2>1, <2>3, <2>4 DEF PipeShape
<1>4. FramesAreFew'
  BY DEF StarterConfigures, CanWrite, Fault, FramesAreFew, PipeShape, HelperShape, Helpers,
     ServiceShape, HelperKnows, StartShape, HandedOver
<1>5. HelperKnows' /\ QuietIsFinal' BY DEF StarterConfigures, HelperKnows, QuietIsFinal
<1>6. HandedOver'
  BY DEF StarterConfigures, CanWrite, Fault, HandedOver, StartShape, Authorized,
     HelperShape, Helpers
<1>7. Authorized'
  BY WatchdogAssumption DEF StarterConfigures, CanWrite, Fault, Authorized, StartShape,
     CloseShape, HandedOver
<1> QED BY <1>1, <1>2, <1>3, <1>4, <1>5, <1>6, <1>7

LEMMA StarterAwaitsReadyKeeps ==
  ASSUME WatchdogInv, StarterAwaitsReady
  PROVE  WatchdogInv'
<1>a. PipeShape OBVIOUS
<1> USE <1>a
<1>b. /\ control' = control
      /\ controlOpen' \in BOOLEAN /\ (controlOpen' => controlOpen)
      /\ status' \in Seq(StatusFrames) /\ Len(status') <= Len(status)
      /\ tr' \in Transports
      /\ tr.quiet # NoQuiet => tr'.quiet = tr.quiet
      /\ Told' => Told
  BY PumpKeeps DEF StarterAwaitsReady
<1> USE <1>b
<1>c. Len(control) \in Nat /\ Len(status) \in Nat /\ Len(status') \in Nat
  BY LenProperties DEF PipeShape
<1> USE <1>c
<1>1. EnvShape' /\ ServiceShape' /\ HelperShape' /\ PipeShape'
  BY DEF StarterAwaitsReady, EnvShape, ServiceShape, HelperShape, PipeShape
<1>2. StartShape' /\ CloseShape' /\ HelperKnows'
  BY DEF StarterAwaitsReady, StartShape, CloseShape, HelperKnows
<1>3. FramesAreFew'
  BY DEF StarterAwaitsReady, FramesAreFew, PipeShape, HelperShape, Helpers, ServiceShape,
     HelperKnows, StartShape, HandedOver
<1>4. QuietIsFinal'
  BY DEF StarterAwaitsReady, QuietIsFinal, HelperKnows, HelperShape, ServiceShape,
     PipeShape, StartShape, HandedOver, CloseShape
<1>5. HandedOver'
  BY DEF StarterAwaitsReady, HandedOver, StartShape, Authorized, HelperShape, Helpers
<1>6. Authorized'
  BY WatchdogAssumption DEF StarterAwaitsReady, Authorized, StartShape, CloseShape,
     HandedOver
<1> QED BY <1>1, <1>2, <1>3, <1>4, <1>5, <1>6

LEMMA StarterAcknowledgesKeeps ==
  ASSUME WatchdogInv, StarterAcknowledges
  PROVE  WatchdogInv'
<1>1. EnvShape'
  <2>1. EnvShape OBVIOUS
  <2>2. faults' = faults \/ Fault BY DEF StarterAcknowledges
  <2>3. faults' \in 0..MaxFaults BY <2>1, <2>2, FaultIsCounted DEF EnvShape
  <2> QED BY <2>1, <2>3 DEF EnvShape, StarterAcknowledges
<1>2. ServiceShape' BY DEF StarterAcknowledges, ServiceShape
<1>3. HelperShape' BY DEF StarterAcknowledges, HelperShape
<1>4. PipeShape' BY DEF StarterAcknowledges, PipeShape
<1>5. StartShape' BY DEF StarterAcknowledges, Fault, StartShape
<1>6. CloseShape' BY DEF StarterAcknowledges, CloseShape
<1>7. FramesAreFew'
  BY DEF StarterAcknowledges, Fault, FramesAreFew, PipeShape, HelperShape, Helpers,
     ServiceShape, HelperKnows, StartShape, HandedOver
<1>8. HelperKnows' BY DEF StarterAcknowledges, HelperKnows
<1>9. QuietIsFinal'
  BY DEF StarterAcknowledges, Fault, QuietIsFinal, HelperKnows, HelperShape, ServiceShape,
     PipeShape, StartShape, HandedOver, CloseShape
<1>10. HandedOver'
  BY DEF StarterAcknowledges, Fault, HandedOver, StartShape, Authorized, HelperShape,
     Helpers
<1>11. Authorized'
  <2>1. Authorized /\ StartShape OBVIOUS
  <2>2. starter = "acknowledge" /\ ~slot /\ ~op.decided /\ ~op.acknowledged /\ ~op.abandoned
    BY <2>1 DEF StarterAcknowledges, Authorized
  <2>3. CASE /\ slot' = TRUE /\ starter' \in {"returned", "closing"}
             /\ op' = [op EXCEPT !.acknowledged = TRUE, !.decided = TRUE]
    <3>1. op'.acknowledged /\ op'.decided /\ ~op'.abandoned BY <2>1, <2>2, <2>3 DEF StartShape
    <3> QED BY <2>1, <2>2, <2>3, <3>1 DEF Authorized, StarterAcknowledges
  <2>4. CASE /\ slot' = slot /\ starter' = "giveup"
             /\ op' = [op EXCEPT !.abandoned = TRUE, !.decided = TRUE]
    <3>1. op'.abandoned /\ op'.decided /\ ~op'.acknowledged BY <2>1, <2>2, <2>4 DEF StartShape
    <3> QED BY <2>1, <2>2, <2>4, <3>1 DEF Authorized, StarterAcknowledges
  <2> QED BY <2>3, <2>4 DEF StarterAcknowledges
<1> QED BY <1>1, <1>2, <1>3, <1>4, <1>5, <1>6, <1>7, <1>8, <1>9, <1>10, <1>11

LEMMA StarterGivesUpKeeps ==
  ASSUME WatchdogInv, StarterGivesUp
  PROVE  WatchdogInv'
<1>1. EnvShape' /\ CloseShape' BY DEF StarterGivesUp, EnvShape, CloseShape
<1>2. ServiceShape' BY DEF StarterGivesUp, ServiceShape
<1>3. HelperShape' BY DEF StarterGivesUp, HelperShape
<1>4. PipeShape' BY DEF StarterGivesUp, PipeShape
<1>5. StartShape' BY DEF StarterGivesUp, StartShape
<1>6. FramesAreFew'
  BY DEF StarterGivesUp, FramesAreFew, PipeShape, HelperShape, Helpers, ServiceShape,
     HelperKnows, StartShape, HandedOver
<1>7. HelperKnows' BY DEF StarterGivesUp, HelperKnows
<1>8. QuietIsFinal'
  BY DEF StarterGivesUp, QuietIsFinal, HelperKnows, HelperShape, ServiceShape, PipeShape,
     StartShape, HandedOver, CloseShape
<1>9. HandedOver'
  BY DEF StarterGivesUp, HandedOver, StartShape, Authorized, HelperShape, Helpers
<1>10. Authorized'
  BY WatchdogAssumption DEF StarterGivesUp, Authorized, StartShape, CloseShape, HandedOver
<1> QED BY <1>1, <1>2, <1>3, <1>4, <1>5, <1>6, <1>7, <1>8, <1>9, <1>10

LEMMA StarterWaitsKeeps ==
  ASSUME WatchdogInv, StarterWaits
  PROVE  WatchdogInv'
<1>1. EnvShape' /\ ServiceShape' /\ HelperShape' /\ PipeShape'
  BY DEF StarterWaits, EnvShape, ServiceShape, HelperShape, PipeShape
<1>2. StartShape' /\ CloseShape' /\ HelperKnows' /\ QuietIsFinal'
  BY DEF StarterWaits, StartShape, CloseShape, HelperKnows, QuietIsFinal
<1>3. FramesAreFew'
  BY DEF StarterWaits, FramesAreFew, PipeShape, HelperShape, Helpers, ServiceShape,
     HelperKnows, StartShape, HandedOver
<1>4. HandedOver' BY DEF StarterWaits, HandedOver, StartShape, Authorized, HelperShape, Helpers
<1>5. Authorized'
  BY WatchdogAssumption DEF StarterWaits, Authorized, StartShape, CloseShape, HandedOver
<1> QED BY <1>1, <1>2, <1>3, <1>4, <1>5

LEMMA PollHealthKeeps ==
  ASSUME WatchdogInv, PollHealth
  PROVE  WatchdogInv'
<1>a. PipeShape OBVIOUS
<1> USE <1>a
<1>b. /\ control' = control
      /\ controlOpen' \in BOOLEAN /\ (controlOpen' => controlOpen)
      /\ status' \in Seq(StatusFrames) /\ Len(status') <= Len(status)
      /\ tr' \in Transports
      /\ tr.quiet # NoQuiet => tr'.quiet = tr.quiet
      /\ Told' => Told
  BY PumpKeeps DEF PollHealth
<1> USE <1>b
<1>c. Len(control) \in Nat /\ Len(status) \in Nat /\ Len(status') \in Nat
  BY LenProperties DEF PipeShape
<1> USE <1>c
<1>1. EnvShape' /\ ServiceShape' /\ HelperShape' /\ PipeShape'
  BY DEF PollHealth, EnvShape, ServiceShape, HelperShape, PipeShape
<1>2. StartShape' /\ CloseShape' /\ HelperKnows' /\ HandedOver'
  BY DEF PollHealth, StartShape, CloseShape, HelperKnows, HandedOver
<1>3. FramesAreFew'
  BY DEF PollHealth, FramesAreFew, PipeShape, HelperShape, Helpers, ServiceShape,
     HelperKnows, StartShape, HandedOver
<1>4. QuietIsFinal'
  BY DEF PollHealth, QuietIsFinal, HelperKnows, HelperShape, ServiceShape, PipeShape,
     StartShape, HandedOver, CloseShape
<1>5. Authorized' BY WatchdogAssumption DEF PollHealth, Authorized
<1> QED BY <1>1, <1>2, <1>3, <1>4, <1>5

LEMMA CloseClaimKeeps ==
  ASSUME WatchdogInv, NEW c \in Closers, CloseClaim(c)
  PROVE  WatchdogInv'
<1>1. EnvShape'
  <2>1. EnvShape OBVIOUS
  <2>2. faults' = faults \/ Fault BY DEF CloseClaim
  <2>3. faults' \in 0..MaxFaults BY <2>1, <2>2, FaultIsCounted DEF EnvShape
  <2> QED BY <2>1, <2>3 DEF EnvShape, CloseClaim
<1>2. ServiceShape' /\ HelperShape' /\ PipeShape' /\ StartShape'
  BY DEF CloseClaim, ServiceShape, HelperShape, PipeShape, StartShape
<1>3. CloseShape' /\ FramesAreFew' /\ HandedOver'
  BY DEF CloseClaim, Fault, CloseShape, FramesAreFew, HandedOver
<1>4. HelperKnows'
  BY DEF CloseClaim, Fault, HelperKnows, ServiceShape, HelperShape, Helpers, HandedOver
<1>5. QuietIsFinal'
  <2>1. QuietIsFinal /\ CloseShape OBVIOUS
  <2>2. UNCHANGED <<tr, status, service, group, helper, op, worker>> BY DEF CloseClaim
  <2>3. close'.outcome = close.outcome BY <2>1 DEF CloseClaim, CloseShape
  <2> QED BY <2>1, <2>2, <2>3 DEF QuietIsFinal
<1>6. Authorized'
  <2>1. Authorized /\ CloseShape OBVIOUS
  <2>2. UNCHANGED <<slot, op, worker, starter>> BY DEF CloseClaim
  <2>3. CASE close.owner = NoCloser
    <3>1. close'.owner = c /\ closer' = [closer EXCEPT ![c] = "entry"]
      BY <2>1, <2>3 DEF CloseClaim, CloseShape
    <3>2. \A d \in Closers : closer[d] \notin {"entry", "first", "cancel", "second", "settle"}
      BY <2>1, <2>3, WatchdogAssumption DEF Authorized
    <3>3. /\ closer' \in [Closers -> {"idle", "wait", "entry", "first", "cancel", "second",
                                      "settle", "quiet", "error", "debt", "late"}]
          /\ \A d \in Closers : d # c => closer'[d] = closer[d]
      BY <2>1, <3>1 DEF CloseShape
    <3>4. \A d \in Closers :
            /\ closer'[d] # "idle" => slot
            /\ closer'[d] \in {"entry", "first", "cancel", "second", "settle"} =>
                 close'.owner = d
      <4> SUFFICES ASSUME NEW d \in Closers
                   PROVE  /\ closer'[d] # "idle" => slot
                          /\ closer'[d] \in {"entry", "first", "cancel", "second", "settle"} =>
                               close'.owner = d
        OBVIOUS
      <4>1. CASE d = c BY <3>1, <4>1 DEF CloseClaim
      <4>2. CASE d # c BY <2>1, <3>2, <3>3, <4>2 DEF Authorized
      <4> QED BY <4>1, <4>2
    <3> QED BY <2>1, <2>2, <3>4 DEF Authorized
  <2>4. CASE close.owner # NoCloser
    <3>1. close' = close /\ closer' = [closer EXCEPT ![c] = "wait"] BY <2>4 DEF CloseClaim
    <3>2. \A d \in Closers :
            /\ closer'[d] # "idle" => slot
            /\ closer'[d] \in {"entry", "first", "cancel", "second", "settle"} =>
                 close'.owner = d
      <4> SUFFICES ASSUME NEW d \in Closers
                   PROVE  /\ closer'[d] # "idle" => slot
                          /\ closer'[d] \in {"entry", "first", "cancel", "second", "settle"} =>
                               close'.owner = d
        OBVIOUS
      <4>1. CASE d = c BY <2>1, <3>1, <4>1 DEF CloseClaim, CloseShape
      <4>2. CASE d # c BY <2>1, <3>1, <4>2 DEF Authorized, CloseShape
      <4> QED BY <4>1, <4>2
    <3> QED BY <2>1, <2>2, <3>2 DEF Authorized
  <2> QED BY <2>3, <2>4
<1> QED BY <1>1, <1>2, <1>3, <1>4, <1>5, <1>6

LEMMA CloseEnterKeeps ==
  ASSUME WatchdogInv, NEW c \in Closers, CloseEnter(c)
  PROVE  WatchdogInv'
<1>1. EnvShape' /\ ServiceShape' /\ HelperShape' /\ PipeShape'
  BY DEF CloseEnter, EnvShape, ServiceShape, HelperShape, PipeShape
<1>2. StartShape' /\ FramesAreFew' /\ HandedOver'
  BY DEF CloseEnter, StartShape, FramesAreFew, HandedOver
<1>3. CloseShape'
  <2>1. CloseShape /\ EnvShape OBVIOUS
  <2> DEFINE heard == tr.quiet # NoQuiet
  <2>2. heard \in BOOLEAN OBVIOUS
  <2>3. close' = [close EXCEPT !.expired = lapsed, !.observed = heard] BY DEF CloseEnter
  <2> HIDE DEF heard
  <2> QED BY <2>1, <2>2, <2>3 DEF CloseShape, CloseEnter, EnvShape
<1>4. HelperKnows'
  BY DEF CloseEnter, HelperKnows, ServiceShape, HelperShape, Helpers, HandedOver
<1>5. QuietIsFinal'
  BY DEF CloseEnter, QuietIsFinal, HelperKnows, HelperShape, ServiceShape, PipeShape,
     StartShape, HandedOver, CloseShape
<1>6. Authorized'
  BY WatchdogAssumption DEF CloseEnter, Authorized, StartShape, CloseShape, HandedOver
<1> QED BY <1>1, <1>2, <1>3, <1>4, <1>5, <1>6

LEMMA CloseCancelKeeps ==
  ASSUME WatchdogInv, NEW c \in Closers, CloseCancel(c)
  PROVE  WatchdogInv'
<1>1. EnvShape' /\ ServiceShape' /\ HelperShape' /\ StartShape'
  BY DEF CloseCancel, EnvShape, ServiceShape, HelperShape, StartShape
<1>2. PipeShape'
  <2>1. PipeShape OBVIOUS
  <2>2. control' \in {control, Append(control, "CANCEL")} BY DEF CloseCancel
  <2>3. control' \in Seq({"CONFIG", "PARTIAL", "CANCEL"})
    BY <2>1, <2>2, FrameIsSent DEF PipeShape
  <2>4. controlOpen' \in BOOLEAN /\ UNCHANGED <<status, tr>> BY <2>1 DEF PipeShape, CloseCancel
  <2> QED BY <2>1, <2>3, <2>4 DEF PipeShape
<1>3. CloseShape' BY DEF CloseCancel, CanWrite, CloseShape
<1>4. FramesAreFew'
  BY DEF CloseCancel, CanWrite, FramesAreFew, PipeShape, HelperShape, Helpers, ServiceShape,
     HelperKnows, StartShape, HandedOver
<1>5. HelperKnows'
  BY DEF CloseCancel, CanWrite, HelperKnows, ServiceShape, HelperShape, Helpers, HandedOver
<1>6. QuietIsFinal'
  BY DEF CloseCancel, CanWrite, QuietIsFinal, HelperKnows, HelperShape, ServiceShape,
     PipeShape, StartShape, HandedOver, CloseShape
<1>7. HandedOver'
  <2>1. HandedOver /\ Authorized OBVIOUS
  <2>2. UNCHANGED <<starter, worker, helper, op, service, slot>> BY DEF CloseCancel
  <2>3. slot BY <2>1 DEF Authorized, CloseCancel
  <2>4. worker \notin {"none", "boot", "construct", "scrap"}
    BY <2>1, <2>3 DEF HandedOver, Authorized
  <2> QED BY <2>1, <2>2, <2>4 DEF HandedOver
<1>8. Authorized'
  BY WatchdogAssumption DEF CloseCancel, CanWrite, Authorized, StartShape, CloseShape,
     HandedOver
<1> QED BY <1>1, <1>2, <1>3, <1>4, <1>5, <1>6, <1>7, <1>8

LEMMA CloseWaitKeeps ==
  ASSUME WatchdogInv, NEW c \in Closers, CloseWait(c)
  PROVE  WatchdogInv'
<1>a. PipeShape OBVIOUS
<1> USE <1>a
<1>b. /\ control' = control
      /\ controlOpen' \in BOOLEAN /\ (controlOpen' => controlOpen)
      /\ status' \in Seq(StatusFrames) /\ Len(status') <= Len(status)
      /\ tr' \in Transports
      /\ tr.quiet # NoQuiet => tr'.quiet = tr.quiet
      /\ Told' => Told
  BY PumpKeeps DEF CloseWait
<1> USE <1>b
<1>c. Len(control) \in Nat /\ Len(status) \in Nat /\ Len(status') \in Nat
  BY LenProperties DEF PipeShape
<1> USE <1>c
<1>1. EnvShape' /\ ServiceShape' /\ HelperShape' /\ PipeShape'
  BY DEF CloseWait, EnvShape, ServiceShape, HelperShape, CleanupComplete, PipeShape
<1>2. StartShape' /\ CloseShape' /\ HelperKnows' /\ HandedOver'
  BY DEF CloseWait, StartShape, CleanupComplete, CloseShape, HelperKnows, HandedOver
<1>3. FramesAreFew'
  BY DEF CloseWait, CleanupComplete, FramesAreFew, PipeShape, HelperShape, Helpers,
     ServiceShape, HelperKnows, StartShape, HandedOver
<1>4. QuietIsFinal'
  BY DEF CloseWait, CleanupComplete, QuietIsFinal, HelperKnows, HelperShape, ServiceShape,
     PipeShape, StartShape, HandedOver, CloseShape
<1>5. Authorized'
  BY WatchdogAssumption DEF CloseWait, CleanupComplete, Authorized, StartShape, CloseShape,
     HandedOver
<1> QED BY <1>1, <1>2, <1>3, <1>4, <1>5

LEMMA CloseSettleKeeps ==
  ASSUME WatchdogInv, NEW c \in Closers, CloseSettle(c)
  PROVE  WatchdogInv'
<1>1. EnvShape' /\ ServiceShape' /\ HelperShape' /\ PipeShape'
  BY DEF CloseSettle, EnvShape, ServiceShape, HelperShape, PipeShape
<1>2. StartShape' /\ CloseShape' /\ FramesAreFew' /\ HandedOver'
  BY DEF CloseSettle, StartShape, CleanupComplete, CloseShape, FramesAreFew, HandedOver
<1>3. HelperKnows'
  BY DEF CloseSettle, CleanupComplete, HelperKnows, ServiceShape, HelperShape, Helpers,
     HandedOver
<1>4. QuietIsFinal'
  BY DEF CloseSettle, CleanupComplete, QuietIsFinal, HelperKnows, HelperShape, ServiceShape,
     PipeShape, StartShape, HandedOver, CloseShape
<1>5. Authorized'
  BY WatchdogAssumption DEF CloseSettle, CleanupComplete, Authorized, StartShape,
     CloseShape, HandedOver
<1> QED BY <1>1, <1>2, <1>3, <1>4, <1>5

LEMMA CloseFollowKeeps ==
  ASSUME WatchdogInv, NEW c \in Closers, CloseFollow(c)
  PROVE  WatchdogInv'
<1>1. EnvShape' /\ ServiceShape' /\ HelperShape' /\ PipeShape'
  BY DEF CloseFollow, EnvShape, ServiceShape, HelperShape, PipeShape
<1>2. StartShape' /\ CloseShape' /\ FramesAreFew' /\ HelperKnows'
  BY DEF CloseFollow, StartShape, CloseShape, FramesAreFew, HelperKnows
<1>3. QuietIsFinal' /\ HandedOver' BY DEF CloseFollow, QuietIsFinal, HandedOver
<1>4. Authorized'
  BY WatchdogAssumption DEF CloseFollow, Authorized, StartShape, CloseShape, HandedOver
<1> QED BY <1>1, <1>2, <1>3, <1>4

LEMMA DeferredWaitKeeps ==
  ASSUME WatchdogInv, NEW c \in Closers, DeferredWait(c)
  PROVE  WatchdogInv'
<1>a. PipeShape OBVIOUS
<1> USE <1>a
<1>b. /\ control' = control
      /\ controlOpen' \in BOOLEAN /\ (controlOpen' => controlOpen)
      /\ status' \in Seq(StatusFrames) /\ Len(status') <= Len(status)
      /\ tr' \in Transports
      /\ tr.quiet # NoQuiet => tr'.quiet = tr.quiet
      /\ Told' => Told
  <2>1. CASE controlOpen
    <3>1. controlOpen' = FALSE /\ UNCHANGED <<tr, control, status>> BY <2>1 DEF DeferredWait
    <3>2. Len(status) \in Nat BY LenProperties DEF PipeShape
    <3>3. Told' <=> Told BY <3>1
    <3>4. status' = status /\ tr' = tr /\ control' = control BY <3>1
    <3>5. /\ status \in Seq(StatusFrames) /\ tr \in Transports /\ Len(status) <= Len(status)
          /\ controlOpen' = FALSE /\ controlOpen
      BY <2>1, <3>1, <3>2 DEF PipeShape
    <3>6. controlOpen' \in BOOLEAN /\ (controlOpen' => controlOpen) BY <3>5
    <3> QED BY <3>3, <3>4, <3>5, <3>6
  <2>2. CASE ~controlOpen BY <2>2, PumpKeeps DEF DeferredWait
  <2> QED BY <2>1, <2>2
<1> USE <1>b
<1>c. Len(control) \in Nat /\ Len(status) \in Nat /\ Len(status') \in Nat
  BY LenProperties DEF PipeShape
<1> USE <1>c
<1>d. UNCHANGED <<lapsed, callerAlive, helperKilled, service, group, exec, term, helper, op,
                  worker, starter, slot, faults, close, closer>>
  BY DEF DeferredWait
<1> USE <1>d
<1>1. EnvShape' /\ ServiceShape' /\ HelperShape' /\ PipeShape'
  BY DEF EnvShape, ServiceShape, HelperShape, Helpers, PipeShape
<1>2. StartShape' /\ CloseShape' /\ HelperKnows'
  BY DEF StartShape, CloseShape, HelperKnows, ServiceShape, HelperShape, Helpers, HandedOver
<1>3. FramesAreFew'
  BY DEF FramesAreFew, PipeShape, HelperShape, Helpers, ServiceShape, HelperKnows,
     StartShape, HandedOver
<1>4. QuietIsFinal'
  BY DEF QuietIsFinal, HelperKnows, HelperShape, ServiceShape, PipeShape, StartShape,
     HandedOver, CloseShape
<1>5. HandedOver' BY DEF HandedOver, StartShape, Authorized, HelperShape, Helpers
<1>6. Authorized' BY WatchdogAssumption DEF Authorized, StartShape, CloseShape, HandedOver
<1> QED BY <1>1, <1>2, <1>3, <1>4, <1>5, <1>6
LEMMA WatchdogStarts ==
  ASSUME WatchdogInit
  PROVE  WatchdogInv
<1>a. lapsed = FALSE /\ callerAlive = TRUE /\ helperKilled = FALSE /\ faults = 0
  BY DEF WatchdogInit
<1>b. service = "none" /\ group = FALSE /\ exec = "open" /\ status = <<>> /\ control = <<>>
  BY DEF WatchdogInit
<1> USE <1>b
<1>c. /\ helper = [pc |-> "none", trigger |-> "", ready |-> FALSE, owned |-> FALSE,
                   stop |-> FALSE]
      /\ starter = "launch" /\ controlOpen = TRUE /\ ~term.debt /\ ~term.stray
  BY DEF WatchdogInit
<1>d. tr.quiet = NoQuiet /\ close.outcome = "none" /\ worker = "none" BY DEF WatchdogInit
<1>e. EnvShape
  <2>1. 0 \in 0 .. MaxFaults BY WatchdogAssumption
  <2> QED BY <1>a, <2>1 DEF EnvShape
<1>0. ServiceShape BY DEF ServiceShape
<1>1. StartShape BY DEF WatchdogInit, StartShape
<1>2. CloseShape BY DEF WatchdogInit, CloseShape
<1>3. HelperShape BY DEF WatchdogInit, HelperShape, Helpers, Triggers
<1>4. PipeShape BY EmptySeq DEF WatchdogInit, PipeShape, Transports
<1>5. Len(control) = 0 /\ Len(status) = 0 /\ DOMAIN status = 1 .. 0
  <2>1. Len(<<>>) = 0 /\ DOMAIN <<>> = 1 .. 0 OBVIOUS
  <2> QED BY <2>1
<1>6. FramesAreFew
  <2>1. /\ starter = "launch" /\ controlOpen = TRUE /\ helper.ready = FALSE
        /\ term.debt = FALSE /\ helper.pc = "none"
    BY DEF WatchdogInit
  <2> QED BY <1>5, <2>1 DEF FramesAreFew
<1>7. HelperKnows BY <1>c DEF HelperKnows
<1>8. ~Told
  <2>1. ~ \E i \in DOMAIN status : status[i].type = "QUIET" BY <1>5
  <2> QED BY <1>d, <2>1
<1>9. QuietIsFinal BY <1>d, <1>8 DEF QuietIsFinal
<1>10. HandedOver /\ Authorized BY DEF WatchdogInit, HandedOver, Authorized
<1> QED BY <1>e, <1>0, <1>1, <1>2, <1>3, <1>4, <1>6, <1>7, <1>9, <1>10

LEMMA WatchdogStutters ==
  ASSUME WatchdogInv, UNCHANGED watchdogVars
  PROVE  WatchdogInv'
<1>1. EnvShape' /\ ServiceShape' /\ HelperShape' /\ PipeShape' /\ StartShape' /\ CloseShape'
  BY DEF watchdogVars, envVars, EnvShape, ServiceShape, HelperShape, PipeShape, StartShape,
     CloseShape
<1>2. FramesAreFew' /\ HelperKnows' /\ QuietIsFinal' /\ HandedOver' /\ Authorized'
  BY DEF watchdogVars, envVars, FramesAreFew, HelperKnows, QuietIsFinal, HandedOver,
     Authorized
<1> QED BY <1>1, <1>2

LEMMA WatchdogSteps ==
  ASSUME WatchdogInv, [WatchdogNext]_watchdogVars
  PROVE  WatchdogInv'
<1>1. CASE LifetimeEnds \/ CallerCrashes \/ HelperSignalled \/ ServiceStarts \/ ServiceRuns
  BY <1>1, LifetimeEndsKeeps, CallerCrashesKeeps, HelperSignalledKeeps, ServiceStartsKeeps,
     ServiceRunsKeeps
<1>2. CASE HelperNext
  BY <1>2, ReadConfigKeeps, ForkKeeps, SettleUnknownChildKeeps, HandshakeKeeps,
     WatchTestsKeeps, WatchControlKeeps, WatchExecKeeps, SignalOwnedGroupKeeps,
     ObserveAndReapKeeps, NoticeDebtKeeps, PublishQuietKeeps DEF HelperNext
<1>3. CASE WorkerNext
  BY <1>3, WorkerSpawnsKeeps, WorkerPublishesKeeps, WorkerScrapsKeeps, WorkerDecidesKeeps,
     WorkerCancelsKeeps, WorkerDrainsKeeps DEF WorkerNext
<1>4. CASE StarterNext
  BY <1>4, StarterLaunchesKeeps, StarterClaimsKeeps, StarterConfiguresKeeps,
     StarterAwaitsReadyKeeps, StarterAcknowledgesKeeps, StarterGivesUpKeeps,
     StarterWaitsKeeps DEF StarterNext
<1>5. CASE PollHealth BY <1>5, PollHealthKeeps
<1>6. ASSUME NEW c \in Closers, CloseNext(c) PROVE WatchdogInv'
  BY <1>6, CloseClaimKeeps, CloseEnterKeeps, CloseCancelKeeps, CloseWaitKeeps,
     CloseSettleKeeps, CloseFollowKeeps, DeferredWaitKeeps DEF CloseNext
<1>7. CASE UNCHANGED watchdogVars BY <1>7, WatchdogStutters
<1> QED BY <1>1, <1>2, <1>3, <1>4, <1>5, <1>6, <1>7 DEF WatchdogNext

\* What the parties of the watchdog know of each other and of the service's tree is
\* so in every state, however they are interrupted, killed or signalled.
THEOREM WatchdogInvariant == WatchdogSpec => []WatchdogInv
<1>1. WatchdogInit => WatchdogInv BY WatchdogStarts
<1>2. WatchdogInv /\ [WatchdogNext]_watchdogVars => WatchdogInv' BY WatchdogSteps
<1> QED BY <1>1, <1>2, PTL DEF WatchdogSpec

LEMMA ShapeIsType == WatchdogInv => WatchdogTypeOK
<1> SUFFICES ASSUME WatchdogInv PROVE WatchdogTypeOK OBVIOUS
<1>1. /\ EnvShape /\ ServiceShape /\ HelperShape /\ PipeShape /\ StartShape /\ CloseShape
      /\ FramesAreFew
  OBVIOUS
<1>2. {lapsed, callerAlive, helperKilled, group, controlOpen, slot} \subseteq BOOLEAN
  BY <1>1 DEF EnvShape, ServiceShape, PipeShape, StartShape
<1>3. Len(control) <= 2 /\ Len(status) <= 3 BY <1>1, LenProperties DEF FramesAreFew, PipeShape
<1>4. \A i \in DOMAIN status : status[i].type \in {"READY", "DEBT", "QUIET"}
  <2>1. \A i \in DOMAIN status : status[i] \in StatusFrames BY <1>1, LenProperties DEF PipeShape
  <2> QED BY <2>1 DEF StatusFrames, QuietFrames
<1>5. /\ DOMAIN tr = {"ready", "quiet", "eof", "broken", "reaped", "finalized"}
      /\ {tr.ready, tr.eof, tr.broken, tr.reaped, tr.finalized} \subseteq BOOLEAN
      /\ tr.quiet.type \in {"NONE", "QUIET"}
  BY <1>1 DEF PipeShape, Transports, QuietFrames, NoQuiet
<1> QED
  BY <1>1, <1>2, <1>3, <1>4, <1>5 DEF WatchdogTypeOK, EnvShape, ServiceShape, HelperShape,
     Helpers, Triggers, PipeShape, StartShape, CloseShape

\* What the spawn worker, a close or the transport calls a completed cleanup is one,
\* no id that a waitpid() may have freed is signalled, and one party at a time has
\* the authority over the transport.
THEOREM WatchdogCleanupIsTrue == WatchdogSpec => []CleanupIsTrue
<1>1. WatchdogInv => QuietIsTrue BY DEF QuietIsTrue, QuietIsFinal, HelperKnows, CleanupComplete
<1>2. ASSUME WatchdogInv PROVE OneAuthority
  <2>1. Authorized /\ HandedOver BY <1>2
  <2> DEFINE S == {c \in Closers :
                     closer[c] \in {"entry", "first", "cancel", "second", "settle"}}
  <2>2. S \subseteq {close.owner} BY <2>1 DEF Authorized
  <2>3. Cardinality(S) <= 1
    <3>1. IsFiniteSet({close.owner}) /\ Cardinality({close.owner}) = 1 BY FS_Singleton
    <3> HIDE DEF S
    <3> QED BY <2>2, <3>1, FS_Subset
  <2>4. worker \in {"cancel", "drain", "scrap"} => ~slot BY <2>1 DEF Authorized, HandedOver
  <2> QED BY <2>1, <2>3, <2>4 DEF OneAuthority, Authorized
<1> QED BY <1>1, <1>2, WatchdogInvariant, PTL DEF CleanupIsTrue
=============================================================================
