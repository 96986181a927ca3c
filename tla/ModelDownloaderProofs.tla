------------------------ MODULE ModelDownloaderProofs ------------------------
(***************************************************************************)
(* Proofs about ModelDownloader, for any number of processes and files, any  *)
(* commands and any number of retries.  Each process has its own invariant,  *)
(* Sound(p); a step of another process leaves it alone or makes its command  *)
(* "disturbed", of which little is claimed.                                 *)
(***************************************************************************)
EXTENDS ModelDownloader, WellFoundedInduction, TLAPS

\* The next file to treat is one of those to treat.
LEMMA FirstIn ==
  ASSUME NEW S \in SUBSET Files, S # {}
  PROVE  First(S) \in S /\ \A g \in S : First(S) <= g
<1>1. S \subseteq Nat
  BY DownloaderAssumption DEF Files
<1>2. PICK f \in S : \A g \in S : ~ (<<g, f>> \in OpToRel(<, Nat))
  BY <1>1, NatLessThanWellFounded, WFMin
<1>3. ASSUME NEW g \in S PROVE f <= g
  <2>1. f \in Nat /\ g \in Nat
    BY <1>1, <1>2
  <2>2. OpToRel(<, Nat) = {ss \in Nat \X Nat : ss[1] < ss[2]}
    BY Zenon DEF OpToRel
  <2>3. ~ (g < f)
    BY <1>2, <2>1, <2>2
  <2>. QED
    BY <2>1, <2>3
<1>. QED
  BY <1>3 DEF First

-----------------------------------------------------------------------------
(* Types *)

LEMMA TypeInit == Init => TypeOK
BY DownloaderAssumption DEF Init, TypeOK, Contents, PcValues

LEMMA ReturnTypes ==
  ASSUME TypeOK, NEW p \in Processes, NEW r \in {"true", "false", "killed"},
         Return(p, r), DiskKept \/ Refused(p)
  PROVE  TypeOK'
BY DownloaderAssumption DEF TypeOK, PcValues, Return, Goto, DiskKept, Refused

LEMMA TreatTypes ==
  ASSUME TypeOK, NEW p \in Processes, NEW label \in PcValues, NEW S \in SUBSET Files,
         Treat(p, label, S), last' \in [Processes -> BOOLEAN], DiskKept \/ Refused(p)
  PROVE  TypeOK'
BY DEF TypeOK, Treat, Goto, DiskKept, Refused

LEMMA OnMissingTypes ==
  ASSUME TypeOK, NEW p \in Processes, OnMissing(p), DiskKept \/ Refused(p)
  PROVE  TypeOK'
<1>1. CASE Treat(p, "list", {}) /\ UNCHANGED last
  <2>1. "list" \in PcValues /\ {} \in SUBSET Files /\ last' \in [Processes -> BOOLEAN]
    BY <1>1 DEF PcValues, TypeOK
  <2>. QED
    BY <1>1, <2>1, TreatTypes
<1>2. CASE /\ Goto(p, "look")
           /\ op' = [op EXCEPT ![p] = "pull"]
           /\ todo' = [todo EXCEPT ![p] = {}]
           /\ UNCHANGED <<last, attempt, handle, result>>
  BY <1>2 DEF TypeOK, PcValues, Goto, DiskKept, Refused
<1>3. CASE Return(p, "true")
  BY <1>3, ReturnTypes
<1>. QED
  BY <1>1, <1>2, <1>3 DEF OnMissing

LEMMA FailedTypes ==
  ASSUME TypeOK, NEW p \in Processes,
         NEW h, h \in [Processes -> {"none", "fresh", "truncated", "unlinked"}], Failed(p, h)
  PROVE  /\ pc' \in [Processes -> PcValues]
         /\ op' = op
         /\ todo' \in [Processes -> SUBSET Files]
         /\ last' \in [Processes -> BOOLEAN]
         /\ attempt' \in [Processes -> 0..MaxRetries - 1]
         /\ handle' = h
         /\ result' \in [Processes -> {"none", "true", "false", "killed"}]
<1>1. CASE /\ attempt[p] + 1 < MaxRetries
           /\ Goto(p, "open")
           /\ attempt' = [attempt EXCEPT ![p] = @ + 1]
           /\ handle' = h
           /\ UNCHANGED <<op, todo, last, result>>
  <2>1. attempt[p] + 1 \in 0..MaxRetries - 1
    BY <1>1, DownloaderAssumption DEF TypeOK
  <2>. QED
    BY <1>1, <2>1 DEF TypeOK, PcValues, Goto
<1>2. CASE /\ Goto(p, "idle")
           /\ result' = [result EXCEPT ![p] = "false"]
           /\ todo' = [todo EXCEPT ![p] = {}]
           /\ last' = [last EXCEPT ![p] = FALSE]
           /\ attempt' = [attempt EXCEPT ![p] = 0]
           /\ handle' = h
           /\ UNCHANGED op
  <2>1. 0 \in 0..MaxRetries - 1
    BY DownloaderAssumption
  <2>. QED
    BY <1>2, <2>1 DEF TypeOK, PcValues, Goto
<1>. QED
  BY <1>1, <1>2 DEF Failed

LEMMA HandlesType ==
  ASSUME TypeOK, NEW p, NEW f, NEW h \in {"truncated", "unlinked"}
  PROVE  Handles(p, f, h) \in [Processes -> {"none", "fresh", "truncated", "unlinked"}]
BY DEF TypeOK, Handles

LEMMA WriteTypes ==
  ASSUME TypeOK, NEW p \in Processes, NEW f, NEW c \in Contents,
         Write(p, f, c) \/ WriteFailing(p, f, c)
  PROVE  /\ disk' \in [Files -> Contents]
         /\ standing' \in [Processes -> {"repairing", "alone", "failing", "disturbed"}]
BY DEF TypeOK, Write, WriteFailing

LEMMA TypeStep ==
  ASSUME TypeOK, NEW p \in Processes, Step(p)
  PROVE  TypeOK'
<1>1. CASE Look(p)
  <2>1. CASE Config \in Absent
    BY <1>1, <2>1, OnMissingTypes DEF Look
  <2>2. CASE Config \notin Absent
    <3>1. "config" \in PcValues /\ Absent \in SUBSET Files /\ last' \in [Processes -> BOOLEAN]
      BY <1>1, <2>2 DEF Look, PcValues, Absent, TypeOK
    <3>. QED
      BY <1>1, <2>2, <3>1, TreatTypes DEF Look
  <2>. QED
    BY <2>1, <2>2
<1>2. CASE ConfigGone(p) \/ ConfigUnreadable(p) \/ Incompatible(p)
  BY <1>2, ReturnTypes DEF ConfigGone, ConfigUnreadable, Incompatible
<1>3. CASE Outdated(p)
  BY <1>3 DEF Outdated, Treat, Goto, DiskKept, TypeOK, PcValues
<1>4. CASE MissingFiles(p)
  BY <1>4, OnMissingTypes DEF MissingFiles
<1>5. CASE Ready(p)
  <2>1. CASE op[p] \in {"force", "check"}
    <3>1. /\ "verify" \in PcValues /\ Files \in SUBSET Files
          /\ last' = [last EXCEPT ![p] = TRUE]
      BY <1>5, <2>1 DEF Ready, PcValues
    <3>2. last' \in [Processes -> BOOLEAN]
      BY <3>1 DEF TypeOK
    <3>. QED
      BY <1>5, <2>1, <3>1, <3>2, TreatTypes DEF Ready
  <2>2. CASE op[p] \notin {"force", "check"}
    BY <1>5, <2>2, ReturnTypes DEF Ready
  <2>. QED
    BY <2>1, <2>2
<1>6. CASE Verify(p)
  <2>1. todo[p] \ {File(p)} \in SUBSET Files /\ todo[p] \in SUBSET Files
    BY DEF TypeOK
  <2>2. "verify" \in PcValues /\ "clean" \in PcValues /\ last' \in [Processes -> BOOLEAN]
    BY <1>6 DEF Verify, TypeOK, PcValues
  <2>. QED
    BY <1>6, <2>1, <2>2, TreatTypes DEF Verify
<1>7. CASE Clean(p)
  <2>1. "absent" \in Contents
    BY DEF Contents
  <2>2. handle' \in [Processes -> {"none", "fresh", "truncated", "unlinked"}]
    BY <1>7, HandlesType DEF Clean
  <2>. QED
    BY <1>7, <2>1, <2>2, WriteTypes DEF Clean, Goto, TypeOK, PcValues
<1>8. CASE Verified(p)
  <2>1. CASE op[p] = "ensure" /\ OnMissing(p)
    BY <1>8, <2>1, OnMissingTypes DEF Verified
  <2>2. CASE Treat(p, "list", {}) /\ UNCHANGED last
    BY <1>8, <2>2 DEF Verified, Treat, Goto, DiskKept, TypeOK, PcValues
  <2>3. CASE Treat(p, "verify", Files) /\ last' = [last EXCEPT ![p] = TRUE]
    BY <1>8, <2>3 DEF Verified, Treat, Goto, DiskKept, TypeOK, PcValues
  <2>4. CASE Return(p, "true")
    BY <1>8, <2>4, ReturnTypes DEF Verified
  <2>. QED
    BY <1>8, <2>1, <2>2, <2>3, <2>4 DEF Verified
<1>9. CASE List(p)
  <2>1. CASE Listed = {}
    BY <1>9, <2>1, ReturnTypes DEF List
  <2>2. CASE Listed # {}
    <3>1. "open" \in PcValues /\ Listed \in SUBSET Files /\ last' \in [Processes -> BOOLEAN]
      BY <1>9, <2>2 DEF List, Listed, Absent, PcValues, TypeOK
    <3>. QED
      BY <1>9, <2>2, <3>1, TreatTypes DEF List
  <2>. QED
    BY <2>1, <2>2
<1>10. CASE Open(p)
  <2>1. "wrong" \in Contents
    BY DEF Contents
  <2>2. handle' \in [Processes -> {"none", "fresh", "truncated", "unlinked"}]
    BY <1>10, HandlesType DEF Open
  <2>. QED
    BY <1>10, <2>1, <2>2, WriteTypes DEF Open, Goto, TypeOK, PcValues
<1>11. CASE OpenFails(p)
  <2>1. handle \in [Processes -> {"none", "fresh", "truncated", "unlinked"}]
    BY DEF TypeOK
  <2>2. standing' \in [Processes -> {"repairing", "alone", "failing", "disturbed"}]
    BY <1>11 DEF OpenFails, Fails, TypeOK
  <2>. QED
    BY <1>11, <2>1, <2>2, FailedTypes DEF OpenFails, TypeOK
<1>12. CASE TransferFails(p)
  <2>1. [Handles(p, File(p), "unlinked") EXCEPT ![p] = "none"]
          \in [Processes -> {"none", "fresh", "truncated", "unlinked"}]
    BY HandlesType
  <2>2. "absent" \in Contents
    BY DEF Contents
  <2>. QED
    BY <1>12, <2>1, <2>2, FailedTypes, WriteTypes DEF TransferFails, TypeOK
<1>13. CASE Arrives(p)
  <2>1. "good" \in Contents /\ "wrong" \in Contents
    BY DEF Contents
  <2>2. /\ disk' \in [Files -> Contents]
        /\ standing' \in [Processes -> {"repairing", "alone", "failing", "disturbed"}]
    BY <1>13, <2>1, WriteTypes DEF Arrives, DiskKept, TypeOK
  <2>. QED
    BY <1>13, <2>2 DEF Arrives, Goto, TypeOK, PcValues
<1>14. CASE WrongBytesArrive(p)
  <2>1. Mismatched(File(p)) \subseteq Contents /\ "wrong" \in Contents
    BY DEF Contents, Mismatched
  <2>2. /\ disk' \in [Files -> Contents]
        /\ standing' \in [Processes -> {"repairing", "alone", "failing", "disturbed"}]
    <3>1. CASE Fails(p) /\ UNCHANGED disk
      BY <3>1 DEF Fails, TypeOK
    <3>2. CASE \E c \in Contents : WriteFailing(p, File(p), c)
      BY <3>2, WriteTypes
    <3>. QED
      BY <1>14, <2>1, <3>1, <3>2 DEF WrongBytesArrive
  <2>. QED
    BY <1>14, <2>2 DEF WrongBytesArrive, Goto, TypeOK, PcValues
<1>15. CASE HashMatches(p)
  <2>1. CASE todo[p] = {File(p)}
    BY <1>15, <2>1, ReturnTypes DEF HashMatches
  <2>2. CASE todo[p] # {File(p)}
    <3>1. 0 \in 0..MaxRetries - 1
      BY DownloaderAssumption
    <3>. QED
      BY <1>15, <2>2, <3>1 DEF HashMatches, Goto, DiskKept, TypeOK, PcValues
  <2>. QED
    BY <2>1, <2>2
<1>16. CASE HashDiffers(p)
  <2>1. handle \in [Processes -> {"none", "fresh", "truncated", "unlinked"}]
    BY DEF TypeOK
  <2>. QED
    BY <1>16, <2>1, FailedTypes DEF HashDiffers, DiskKept, TypeOK
<1>17. CASE Remove(p)
  <2>1. PICK f \in todo[p] : /\ Write(p, f, "absent")
                             /\ todo' = [todo EXCEPT ![p] = @ \ {f}]
                             /\ handle' = Handles(p, f, "unlinked")
    BY <1>17 DEF Remove
  <2>2. "absent" \in Contents
    BY DEF Contents
  <2>3. handle' \in [Processes -> {"none", "fresh", "truncated", "unlinked"}]
    BY <2>1, HandlesType
  <2>. QED
    BY <1>17, <2>1, <2>2, <2>3, WriteTypes DEF Remove, TypeOK
<1>18. CASE Removed(p)
  BY <1>18, ReturnTypes DEF Removed
<1>19. CASE LookThrows(p)
  <2>1. PICK f \in Files : IF Config \in MissingBefore(f)
                             THEN OnMissing(p)
                             ELSE Treat(p, "config", MissingBefore(f)) /\ UNCHANGED last
    BY <1>19 DEF LookThrows
  <2>2. "config" \in PcValues /\ MissingBefore(f) \in SUBSET Files /\ last \in [Processes -> BOOLEAN]
    BY DEF PcValues, MissingBefore, Absent, TypeOK
  <2>. QED
    BY <1>19, <2>1, <2>2, OnMissingTypes, TreatTypes DEF LookThrows
<1>20. CASE ConfigUnopened(p) \/ DownloadThrows(p) \/ RemoveThrows(p)
  BY <1>20, ReturnTypes DEF ConfigUnopened, DownloadThrows, RemoveThrows
<1>21. CASE VerifyUnreadable(p) \/ VerifyThrows(p)
  <2>1. /\ "verify" \in PcValues /\ "clean" \in PcValues
        /\ todo[p] \in SUBSET Files /\ {} \in SUBSET Files
        /\ last' \in [Processes -> BOOLEAN]
    BY <1>21 DEF VerifyUnreadable, VerifyThrows, PcValues, TypeOK
  <2>. QED
    BY <1>21, <2>1, TreatTypes DEF VerifyUnreadable, VerifyThrows
<1>22. CASE ListThrows(p)
  <2>1. PICK f \in Files : IF MissingBefore(f) = {}
                             THEN Return(p, "true")
                             ELSE Treat(p, "open", MissingBefore(f)) /\ UNCHANGED last
    BY <1>22 DEF ListThrows
  <2>2. "open" \in PcValues /\ MissingBefore(f) \in SUBSET Files /\ last \in [Processes -> BOOLEAN]
    BY DEF PcValues, MissingBefore, Absent, TypeOK
  <2>. QED
    BY <1>22, <2>1, <2>2, ReturnTypes, TreatTypes DEF ListThrows
<1>23. CASE HashUnreadable(p)
  <2>1. handle \in [Processes -> {"none", "fresh", "truncated", "unlinked"}]
    BY DEF TypeOK
  <2>. QED
    BY <1>23, <2>1, FailedTypes DEF HashUnreadable, Refused, TypeOK
<1>. QED
  BY <1>1, <1>2, <1>3, <1>4, <1>5, <1>6, <1>7, <1>8, <1>9, <1>10, <1>11, <1>12,
     <1>13, <1>14, <1>15, <1>16, <1>17, <1>18, <1>19, <1>20, <1>21, <1>22, <1>23
  DEF Step, Hindered

LEMMA TypeOthers ==
  ASSUME TypeOK
  PROVE  /\ \A p \in Processes : Kill(p) => TypeOK'
         /\ \A p \in Processes, cmd \in Commands : Start(p, cmd) => TypeOK'
         /\ Release => TypeOK'
         /\ UNCHANGED vars => TypeOK'
<1>. USE DownloaderAssumption DEF TypeOK, PcValues, Contents
<1>1. ASSUME NEW p \in Processes, Kill(p) PROVE TypeOK'
  BY <1>1 DEF Kill, Return, Goto, DiskKept
<1>2. ASSUME NEW p \in Processes, NEW cmd \in Commands, Start(p, cmd) PROVE TypeOK'
  BY <1>2 DEF Start, Goto, Absent
<1>3. ASSUME Release PROVE TypeOK'
  BY <1>3 DEF Release, local, Mismatched
<1>4. ASSUME UNCHANGED vars PROVE TypeOK'
  BY <1>4 DEF vars, local
<1>. QED
  BY <1>1, <1>2, <1>3, <1>4

\* The variables of the downloader keep their types.
THEOREM TypeCorrect == Spec => []TypeOK
<1>1. TypeOK /\ [Next]_vars => TypeOK'
  BY TypeStep, TypeOthers DEF Next
<1>. QED
  BY TypeInit, <1>1, PTL DEF Spec

-----------------------------------------------------------------------------
(* What a command knows of the disk *)

\* There is a file wherever one is needed, and only flm remove removes.
Placed(p) ==
  /\ pc[p] \in {"clean", "open", "transfer", "hash"} => todo[p] # {}
  /\ pc[p] = "remove" => op[p] = "remove"

\* A command nobody disturbs: what it has seen of the disk is still so.
Careful(p) ==
  /\ pc[p] = "config" => todo[p] = Absent
  /\ pc[p] = "clean" => disk[File(p)] \notin {"absent", "good"}
  /\ pc[p] \in {"open", "transfer", "hash"}
       => \A f \in Files \ {File(p)} : disk[f] = "absent" <=> f \in todo[p]
  /\ pc[p] = "open" => disk[File(p)] # "good"
  /\ pc[p] = "transfer" => disk[File(p)] = "wrong" /\ handle[p] = "fresh"
  /\ pc[p] = "idle" /\ op[p] \in {"pull", "force", "ensure"} /\ result[p] = "true"
       => Absent = {} \/ disk[Config] = "new"

\* A command that should make the model complete: the files it is through with
\* need nothing more.
Repairing(p) ==
  /\ op[p] \in {"pull", "force", "ensure"}
  /\ pc[p] # "remove"
  /\ pc[p] \in {"look", "config"} => Repairable(op[p])
  /\ pc[p] \in {"verify", "clean"} => \A f \in Files \ todo[p] : disk[f] \in {"absent", "good"}
  /\ pc[p] = "list" => \A f \in Files : disk[f] \in {"absent", "good"}
  /\ pc[p] \in {"open", "transfer", "hash"} => \A f \in Files \ todo[p] : disk[f] = "good"
  /\ pc[p] = "hash" => disk[File(p)] = "good"
  /\ Ended(p) /\ op[p] \in {"pull", "force"} => result[p] = "true" /\ AllGood

Sound(p) ==
  /\ Placed(p)
  /\ Alone(p) => Careful(p)
  /\ standing[p] = "repairing" => Repairing(p)

IInv == TypeOK /\ \A p \in Processes : Sound(p)

LEMMA SoundInit == Init => \A p \in Processes : Sound(p)
BY DEF Init, Sound, Placed, Alone, Careful, Repairing

\* What a step leaves of a process that does not take it: its place, and either the
\* disk or nothing to say of it.
Spared(q) ==
  /\ pc'[q] = pc[q] /\ op'[q] = op[q] /\ todo'[q] = todo[q] /\ result'[q] = result[q]
  /\ \/ standing'[q] = "disturbed"
     \/ standing'[q] = standing[q] /\ handle'[q] = handle[q] /\ disk' = disk

LEMMA SparedKeeps ==
  ASSUME NEW q \in Processes, Sound(q), Spared(q)
  PROVE  Sound(q)'
<1>1. CASE standing'[q] = "disturbed"
  BY <1>1 DEF Spared, Sound, Placed, Alone
<1>2. CASE standing'[q] = standing[q] /\ handle'[q] = handle[q] /\ disk' = disk
  <2>1. /\ pc'[q] = pc[q] /\ op'[q] = op[q] /\ todo'[q] = todo[q] /\ result'[q] = result[q]
    BY DEF Spared
  <2>2. Absent' = Absent /\ AllGood' = AllGood
    BY <1>2 DEF Absent, AllGood
  <2>3. File(q)' = File(q)
    BY <2>1 DEF File
  <2>4. Repairable(op[q])' = Repairable(op[q])
    BY <1>2, <2>1, <2>2 DEF Repairable, VersionFits
  <2>5. Placed(q)' /\ Alone(q)' = Alone(q)
    BY <1>2, <2>1 DEF Sound, Placed, Alone
  <2>6. Careful(q) => Careful(q)'
    BY <1>2, <2>1, <2>2, <2>3 DEF Careful
  <2>7. Repairing(q) => Repairing(q)'
    BY <1>2, <2>1, <2>2, <2>3, <2>4 DEF Repairing, Ended
  <2>. QED
    BY <1>2, <2>5, <2>6, <2>7 DEF Sound
<1>. QED
  BY <1>1, <1>2 DEF Spared

LEMMA StepSpares ==
  ASSUME TypeOK, NEW p \in Processes, Step(p), NEW q \in Processes \ {p}
  PROVE  Spared(q)
<1>1. SUFFICES /\ pc'[q] = pc[q] /\ op'[q] = op[q]
               /\ todo'[q] = todo[q] /\ result'[q] = result[q]
               /\ \/ standing'[q] = "disturbed"
                  \/ standing'[q] = standing[q] /\ handle'[q] = handle[q] /\ disk' = disk
  BY DEF Spared
<1>. USE DEF TypeOK, Goto
<1>2. CASE Look(p)
  BY <1>2 DEF Look, OnMissing, Treat, Return, DiskKept
<1>3. CASE ConfigGone(p) \/ ConfigUnreadable(p) \/ Incompatible(p) \/ Removed(p)
  BY <1>3 DEF ConfigGone, ConfigUnreadable, Incompatible, Removed, Return, DiskKept
<1>4. CASE Outdated(p)
  BY <1>4 DEF Outdated, Treat, DiskKept
<1>5. CASE MissingFiles(p)
  BY <1>5 DEF MissingFiles, OnMissing, Treat, Return, DiskKept
<1>6. CASE Ready(p)
  BY <1>6 DEF Ready, Treat, Return, DiskKept
<1>7. CASE Verify(p)
  BY <1>7 DEF Verify, Treat, DiskKept
<1>8. CASE Verified(p)
  BY <1>8 DEF Verified, OnMissing, Treat, Return, DiskKept
<1>9. CASE List(p)
  BY <1>9 DEF List, Treat, Return, DiskKept
<1>10. CASE Clean(p) \/ Open(p) \/ Remove(p)
  BY <1>10 DEF Clean, Open, Remove, Write
<1>11. CASE OpenFails(p)
  BY <1>11 DEF OpenFails, Failed, Fails
<1>12. CASE HashDiffers(p)
  BY <1>12 DEF HashDiffers, Failed, DiskKept
<1>13. CASE TransferFails(p)
  BY <1>13 DEF TransferFails, Failed, WriteFailing
<1>14. CASE Arrives(p)
  BY <1>14 DEF Arrives, Write, DiskKept
<1>15. CASE WrongBytesArrive(p)
  BY <1>15 DEF WrongBytesArrive, WriteFailing, Fails
<1>16. CASE HashMatches(p)
  BY <1>16 DEF HashMatches, Return, DiskKept
<1>17. CASE Hindered(p)
  BY <1>17 DEF Hindered, LookThrows, ConfigUnopened, VerifyUnreadable, VerifyThrows, ListThrows,
     DownloadThrows, HashUnreadable, RemoveThrows, Refused, OnMissing, Treat, Return, Failed
<1>. QED
  BY <1>2, <1>3, <1>4, <1>5, <1>6, <1>7, <1>8, <1>9, <1>10, <1>11, <1>12, <1>13,
     <1>14, <1>15, <1>16, <1>17 DEF Step

-----------------------------------------------------------------------------
(* Each step keeps the invariant of its own process *)

\* Ending with "false" or by a kill, when it was not to repair or has failed.
LEMMA GivesUp ==
  ASSUME TypeOK, NEW p \in Processes, pc'[p] = "idle", result'[p] \in {"none", "false", "killed"},
         \/ standing'[p] # "repairing"
         \/ /\ result'[p] # "false"
            /\ op'[p] \in {"pull", "force", "ensure"}
  PROVE  Sound(p)'
BY DEF Sound, Placed, Alone, Careful, Repairing, Ended

LEMMA SoundOnMissing ==
  ASSUME TypeOK, NEW p \in Processes, OnMissing(p), DiskKept,
         standing[p] = "repairing"
           => /\ op[p] \in {"pull", "force", "ensure"}
              /\ \A f \in Files : disk[f] \in {"absent", "good"}
  PROVE  Sound(p)'
<1>. USE DEF TypeOK, Goto, DiskKept
<1>1. CASE op[p] \in {"pull", "force"} /\ Treat(p, "list", {})
  BY <1>1 DEF Treat, Sound, Placed, Alone, Careful, Repairing, Ended
<1>2. CASE /\ op[p] = "ensure"
           /\ Goto(p, "look")
           /\ op' = [op EXCEPT ![p] = "pull"]
           /\ todo' = [todo EXCEPT ![p] = {}]
           /\ UNCHANGED <<last, attempt, handle, result>>
  BY <1>2 DEF Sound, Placed, Alone, Careful, Repairing, Repairable, VersionFits, Ended
<1>3. CASE op[p] = "check" /\ Return(p, "true")
  BY <1>3 DEF Return, Sound, Placed, Alone, Careful, Repairing, Ended
<1>. QED
  BY <1>1, <1>2, <1>3 DEF OnMissing

LEMMA SoundLook ==
  ASSUME TypeOK, NEW p \in Processes, Sound(p), Look(p)
  PROVE  Sound(p)'
<1>1. CASE Config \in Absent
  <2>1. standing[p] = "repairing"
          => /\ op[p] \in {"pull", "force", "ensure"}
             /\ \A f \in Files : disk[f] \in {"absent", "good"}
    BY <1>1 DEF Look, Sound, Repairing, Repairable, VersionFits, Absent
  <2>. QED
    BY <1>1, <2>1, SoundOnMissing DEF Look
<1>2. CASE Config \notin Absent
  <2>1. /\ pc' = [pc EXCEPT ![p] = "config"] /\ todo' = [todo EXCEPT ![p] = Absent]
        /\ op' = op /\ disk' = disk /\ standing' = standing
    BY <1>2 DEF Look, Treat, Goto, DiskKept
  <2>2. /\ pc'[p] = "config" /\ todo'[p] = Absent' /\ Repairable(op[p])' = Repairable(op[p])
    BY <2>1 DEF TypeOK, Repairable, VersionFits, Absent
  <2>. QED
    BY <2>1, <2>2 DEF Look, Sound, Placed, Alone, Careful, Repairing, Ended
<1>. QED
  BY <1>1, <1>2

LEMMA SoundConfig ==
  ASSUME TypeOK, NEW p \in Processes, Sound(p),
         ConfigGone(p) \/ ConfigUnreadable(p) \/ Incompatible(p) \/ Outdated(p) \/ MissingFiles(p) \/ Ready(p)
  PROVE  Sound(p)'
<1>. USE DEF TypeOK, Goto, DiskKept
<1>1. CASE ConfigGone(p)
  <2>1. /\ pc'[p] = "idle" /\ result'[p] = "killed" /\ standing' = standing
        /\ pc[p] = "config" /\ op' = op
    BY <1>1 DEF ConfigGone, Return
  <2>2. standing[p] = "repairing" => op[p] \in {"pull", "force", "ensure"}
    BY DEF Sound, Repairing
  <2>. QED
    BY <2>1, <2>2, GivesUp
<1>2. CASE ConfigUnreadable(p)
  <2>1. /\ pc'[p] = "idle" /\ result'[p] = "false" /\ standing' = standing
        /\ pc[p] = "config" /\ disk[Config] = "wrong"
    BY <1>2 DEF ConfigUnreadable, Return
  <2>2. Config \in Files
    BY DownloaderAssumption DEF Config, Files
  <2>3. standing[p] # "repairing"
    BY <2>1, <2>2 DEF Sound, Repairing, Repairable, VersionFits
  <2>. QED
    BY <2>1, <2>3, GivesUp
<1>3. CASE Incompatible(p)
  <2>1. /\ pc'[p] = "idle" /\ standing' = standing /\ disk' = disk
        /\ pc[p] = "config" /\ disk[Config] = "new"
    BY <1>3 DEF Incompatible, Return
  <2>2. Config \in Files
    BY DownloaderAssumption DEF Config, Files
  <2>3. standing[p] # "repairing"
    BY <2>1, <2>2 DEF Sound, Repairing, Repairable, VersionFits
  <2>. QED
    BY <2>1, <2>3 DEF Sound, Placed, Alone, Careful
<1>4. CASE Outdated(p)
  BY <1>4 DEF Outdated, Treat, Sound, Placed, Alone, Careful, Repairing, Ended
<1>5. CASE MissingFiles(p)
  <2>1. Alone(p) => Absent # {}
    BY <1>5 DEF MissingFiles, Sound, Careful
  <2>2. standing[p] = "repairing"
          => /\ op[p] \in {"pull", "force", "ensure"}
             /\ \A f \in Files : disk[f] \in {"absent", "good"}
    BY <1>5, <2>1 DEF MissingFiles, Sound, Repairing, Repairable, VersionFits, Alone
  <2>. QED
    BY <1>5, <2>2, SoundOnMissing DEF MissingFiles
<1>6. CASE Ready(p)
  <2>1. Alone(p) => Absent = {}
    BY <1>6 DEF Ready, Sound, Careful
  <2>2. CASE op[p] \in {"force", "check"}
    BY <1>6, <2>2 DEF Ready, Treat, Sound, Placed, Alone, Careful, Repairing, Ended
  <2>3. CASE op[p] \notin {"force", "check"}
    <3>1. /\ pc'[p] = "idle" /\ result'[p] = "true" /\ op' = op
          /\ standing' = standing /\ disk' = disk /\ pc[p] = "config" /\ VersionFits
      BY <1>6, <2>3 DEF Ready, Return
    <3>2. Absent' = Absent /\ AllGood' = AllGood
      BY <3>1 DEF Absent, AllGood
    <3>3. Placed(p)'
      BY <3>1 DEF Placed
    <3>4. Alone(p)' => Careful(p)'
      BY <2>1, <3>1, <3>2 DEF Alone, Careful
    <3>5. standing[p] = "repairing" => AllGood
      <4>1. SUFFICES ASSUME standing[p] = "repairing", NEW f \in Files
                     PROVE  disk[f] = "good"
        BY DEF AllGood
      <4>2. \A g \in Files : disk[g] \in {"absent", "good"}
        BY <2>3, <3>1, <4>1 DEF Sound, Repairing, Repairable, VersionFits
      <4>3. f \notin Absent
        BY <2>1, <4>1 DEF Alone
      <4>. QED
        BY <4>2, <4>3 DEF Absent
    <3>6. standing'[p] = "repairing" => Repairing(p)'
      BY <3>1, <3>2, <3>5 DEF Sound, Repairing, Ended
    <3>. QED
      BY <3>3, <3>4, <3>6 DEF Sound
  <2>. QED
    BY <2>2, <2>3
<1>. QED
  BY <1>1, <1>2, <1>3, <1>4, <1>5, <1>6

LEMMA SoundVerify ==
  ASSUME TypeOK, NEW p \in Processes, Sound(p),
         Verify(p) \/ Clean(p) \/ Verified(p) \/ List(p)
  PROVE  Sound(p)'
<1>. USE DEF TypeOK, Goto, DiskKept
<1>1. CASE Verify(p)
  <2>1. File(p) \in todo[p]
    BY <1>1, FirstIn DEF Verify, File
  <2>2. CASE disk[File(p)] \in {"absent", "good"}
    BY <1>1, <2>1, <2>2 DEF Verify, Treat, Sound, Placed, Alone, Careful, Repairing, Ended
  <2>3. CASE disk[File(p)] \notin {"absent", "good"}
    <3>1. /\ pc[p] = "verify" /\ pc'[p] = "clean" /\ todo'[p] = todo[p] /\ op' = op
          /\ disk' = disk /\ standing' = standing
      BY <1>1, <2>3 DEF Verify, Treat
    <3>2. File(p)' = File(p)
      BY <3>1 DEF File
    <3>. QED
      BY <2>1, <2>3, <3>1, <3>2 DEF Sound, Placed, Alone, Careful, Repairing, Ended
  <2>. QED
    BY <2>2, <2>3
<1>2. CASE Clean(p)
  <2>1. File(p) \in todo[p]
    BY <1>2, FirstIn DEF Clean, Sound, Placed, File
  <2>2. /\ pc[p] = "clean" /\ pc'[p] = "verify" /\ todo'[p] = todo[p] \ {File(p)} /\ op' = op
        /\ standing'[p] = standing[p] /\ disk' = [disk EXCEPT ![File(p)] = "absent"]
    BY <1>2 DEF Clean, Write
  <2>. QED
    BY <2>1, <2>2 DEF Sound, Placed, Alone, Careful, Repairing, Ended
<1>3. CASE Verified(p)
  <2>1. standing[p] = "repairing"
          => /\ op[p] \in {"pull", "force", "ensure"}
             /\ \A f \in Files : disk[f] \in {"absent", "good"}
    BY <1>3 DEF Verified, Sound, Repairing
  <2>2. CASE op[p] = "ensure" /\ OnMissing(p)
    BY <1>3, <2>1, <2>2, SoundOnMissing DEF Verified
  <2>3. CASE op[p] \in {"pull", "force"} /\ Treat(p, "list", {})
    BY <1>3, <2>1, <2>3 DEF Verified, Treat, Sound, Placed, Alone, Careful, Repairing, Ended
  <2>4. CASE op[p] = "check" /\ Treat(p, "verify", Files)
    BY <1>3, <2>1, <2>4 DEF Verified, Treat, Sound, Placed, Alone, Careful
  <2>5. CASE op[p] = "check" /\ Return(p, "true")
    BY <1>3, <2>1, <2>5 DEF Verified, Return, Sound, Placed, Alone, Careful
  <2>. QED
    BY <1>3, <2>2, <2>3, <2>4, <2>5 DEF Verified
<1>4. CASE List(p)
  <2>1. CASE Absent = {}
    <3>1. /\ pc[p] = "list" /\ pc'[p] = "idle" /\ result'[p] = "true"
          /\ op' = op /\ disk' = disk /\ standing' = standing
      BY <1>4, <2>1 DEF List, Listed, Return
    <3>2. Absent' = {} /\ AllGood' = AllGood
      BY <2>1, <3>1 DEF Absent, AllGood
    <3>3. standing[p] = "repairing" => AllGood
      BY <2>1, <3>1 DEF Sound, Repairing, Absent, AllGood
    <3>. QED
      BY <3>1, <3>2, <3>3 DEF Sound, Placed, Alone, Careful, Repairing, Ended
  <2>2. CASE Absent # {}
    <3>1. /\ pc[p] = "list" /\ pc'[p] = "open" /\ todo'[p] = Absent
          /\ op' = op /\ disk' = disk /\ standing' = standing
      BY <1>4, <2>2 DEF List, Listed, Treat
    <3>2. Absent \in SUBSET Files
      BY DEF Absent
    <3>3. File(p)' \in Absent
      BY <2>2, <3>1, <3>2, FirstIn DEF File
    <3>4. Placed(p)'
      BY <2>2, <3>1 DEF Placed
    <3>5. Careful(p)'
      BY <3>1, <3>3 DEF Careful, Absent
    <3>6. standing[p] = "repairing" => Repairing(p)'
      BY <3>1 DEF Sound, Repairing, Ended, Absent
    <3>. QED
      BY <3>1, <3>4, <3>5, <3>6 DEF Sound
  <2>. QED
    BY <2>1, <2>2
<1>. QED
  BY <1>1, <1>2, <1>3, <1>4

\* A failed attempt that left the path of the file without a good file.
LEMMA SoundFailed ==
  ASSUME TypeOK, NEW p \in Processes, NEW h, Placed(p), Failed(p, h),
         pc[p] \in {"open", "transfer", "hash"},
         Alone(p)' => /\ disk'[File(p)] # "good"
                      /\ \A f \in Files \ {File(p)} : disk'[f] = "absent" <=> f \in todo[p],
         standing'[p] # "repairing"
  PROVE  Sound(p)'
<1>. USE DEF TypeOK, Goto
<1>1. CASE /\ Goto(p, "open")
           /\ UNCHANGED <<op, todo, last, result>>
  <2>1. File(p)' = File(p) /\ pc'[p] = "open" /\ todo'[p] = todo[p]
    BY <1>1 DEF File
  <2>. QED
    BY <2>1 DEF Sound, Placed, Careful
<1>2. CASE Goto(p, "idle") /\ result' = [result EXCEPT ![p] = "false"]
  BY <1>2, GivesUp
<1>. QED
  BY <1>1, <1>2 DEF Failed

LEMMA SoundDownload ==
  ASSUME TypeOK, NEW p \in Processes, Sound(p),
         \/ Open(p) \/ OpenFails(p) \/ TransferFails(p) \/ Arrives(p)
         \/ WrongBytesArrive(p) \/ HashMatches(p) \/ HashDiffers(p)
  PROVE  Sound(p)'
<1>. USE DEF TypeOK, Goto
<1>1. Placed(p) /\ pc[p] \in {"open", "transfer", "hash"}
  BY DEF Sound, Open, OpenFails, TransferFails, Arrives, WrongBytesArrive, HashMatches, HashDiffers
<1>2. File(p) \in todo[p] /\ File(p) \in Files
  BY <1>1, FirstIn DEF Placed, File
<1>3. Alone(p) => \A f \in Files \ {File(p)} : disk[f] = "absent" <=> f \in todo[p]
  BY <1>1 DEF Sound, Careful
<1>4. CASE Open(p)
  <2>1. /\ pc'[p] = "transfer" /\ todo'[p] = todo[p] /\ op' = op /\ handle'[p] = "fresh"
        /\ standing'[p] = standing[p] /\ disk' = [disk EXCEPT ![File(p)] = "wrong"]
    <3>1. handle' = [Handles(p, File(p), "truncated") EXCEPT ![p] = "fresh"]
      BY <1>4 DEF Open
    <3>2. handle'[p] = "fresh"
      BY <3>1 DEF Handles
    <3>. QED
      BY <1>4, <3>2 DEF Open, Write
  <2>2. File(p)' = File(p)
    BY <2>1 DEF File
  <2>3. Alone(p) => Careful(p)'
    BY <1>2, <1>3, <2>1, <2>2 DEF Careful
  <2>4. standing[p] = "repairing" => Repairing(p)'
    BY <1>1, <1>2, <2>1 DEF Sound, Repairing, Ended
  <2>. QED
    BY <1>1, <2>1, <2>3, <2>4 DEF Sound, Placed, Alone
<1>5. CASE OpenFails(p)
  <2>1. /\ disk' = disk /\ standing'[p] # "repairing"
        /\ standing'[p] # "disturbed" => standing[p] # "disturbed"
    BY <1>5 DEF OpenFails, Fails
  <2>2. Alone(p)' => Alone(p) /\ disk'[File(p)] # "good"
    BY <1>5, <2>1 DEF OpenFails, Alone, Sound, Careful
  <2>. QED
    BY <1>1, <1>3, <1>5, <2>1, <2>2, SoundFailed DEF OpenFails
<1>6. CASE TransferFails(p)
  <2>1. /\ disk' = [disk EXCEPT ![File(p)] = "absent"] /\ standing'[p] # "repairing"
        /\ standing'[p] # "disturbed" => standing[p] # "disturbed"
    BY <1>6 DEF TransferFails, WriteFailing
  <2>2. Alone(p)' => /\ disk'[File(p)] # "good"
                     /\ \A f \in Files \ {File(p)} : disk'[f] = "absent" <=> f \in todo[p]
    BY <1>2, <1>3, <2>1 DEF Alone
  <2>. QED
    BY <1>1, <1>6, <2>1, <2>2, SoundFailed DEF TransferFails
<1>7. CASE Arrives(p) \/ WrongBytesArrive(p)
  <2>1. /\ pc[p] = "transfer" /\ pc'[p] = "hash" /\ todo'[p] = todo[p] /\ op' = op
        /\ standing'[p] # "disturbed" => standing[p] # "disturbed"
        /\ standing'[p] = "repairing" => standing[p] = "repairing"
    BY <1>7 DEF Arrives, WrongBytesArrive, Write, WriteFailing, Fails, DiskKept
  <2>2. Alone(p) => handle[p] = "fresh"
    BY <2>1 DEF Sound, Careful
  <2>3. Alone(p) => \E c \in Contents \ {"absent"} : disk' = [disk EXCEPT ![File(p)] = c]
    BY <1>7, <2>2 DEF Arrives, WrongBytesArrive, Write, WriteFailing, Mismatched, Contents
  <2>4. standing'[p] = "repairing" => disk' = [disk EXCEPT ![File(p)] = "good"]
    BY <1>7, <2>1, <2>2 DEF Arrives, WrongBytesArrive, Write, WriteFailing, Fails, Alone
  <2>5. File(p)' = File(p)
    BY <2>1 DEF File
  <2>6. Alone(p)' => Careful(p)'
    BY <1>2, <1>3, <2>1, <2>3, <2>5 DEF Careful, Alone
  <2>7. standing'[p] = "repairing" => Repairing(p)'
    BY <1>2, <2>1, <2>4, <2>5 DEF Sound, Repairing, Ended
  <2>. QED
    BY <1>1, <2>1, <2>6, <2>7 DEF Sound, Placed
<1>8. CASE HashMatches(p)
  <2>1. pc[p] = "hash" /\ disk[File(p)] = "good" /\ disk' = disk /\ standing' = standing /\ op' = op
    BY <1>8 DEF HashMatches, DiskKept, Return
  <2>2. CASE todo[p] = {File(p)}
    <3>1. pc'[p] = "idle" /\ result'[p] = "true"
      BY <1>8, <2>2 DEF HashMatches, Return
    <3>2. Alone(p) => Absent' = {}
      BY <1>3, <2>1, <2>2 DEF Absent
    <3>3. standing[p] = "repairing" => AllGood'
      BY <2>1, <2>2 DEF Sound, Repairing, AllGood
    <3>. QED
      BY <2>1, <3>1, <3>2, <3>3 DEF Sound, Placed, Alone, Careful, Repairing, Ended
  <2>3. CASE todo[p] # {File(p)}
    <3>1. pc'[p] = "open" /\ todo'[p] = todo[p] \ {File(p)}
      BY <1>8, <2>3 DEF HashMatches
    <3>2. todo'[p] # {} /\ todo'[p] \in SUBSET Files
      BY <1>2, <2>3, <3>1
    <3>3. File(p)' \in todo'[p]
      BY <3>2, FirstIn DEF File
    <3>4. Alone(p) => Careful(p)'
      BY <1>2, <1>3, <2>1, <3>1, <3>3 DEF Careful
    <3>5. standing[p] = "repairing" => Repairing(p)'
      BY <2>1, <3>1 DEF Sound, Repairing, Ended
    <3>. QED
      BY <2>1, <3>1, <3>2, <3>4, <3>5 DEF Sound, Placed, Alone
  <2>. QED
    BY <2>2, <2>3
<1>9. CASE HashDiffers(p)
  <2>1. pc[p] = "hash" /\ disk[File(p)] # "good" /\ disk' = disk /\ standing' = standing
    BY <1>9 DEF HashDiffers, DiskKept
  <2>2. standing[p] # "repairing"
    BY <2>1 DEF Sound, Repairing
  <2>. QED
    BY <1>1, <1>3, <1>9, <2>1, <2>2, SoundFailed DEF HashDiffers, Alone
<1>. QED
  BY <1>4, <1>5, <1>6, <1>7, <1>8, <1>9

LEMMA SoundRemove ==
  ASSUME TypeOK, NEW p \in Processes, Sound(p), Remove(p) \/ Removed(p)
  PROVE  Sound(p)'
<1>1. standing[p] # "repairing" /\ standing'[p] = standing[p]
  BY DEF Remove, Removed, Write, DiskKept, Sound, Repairing, TypeOK
<1>2. op[p] = "remove" /\ op' = op /\ pc'[p] \in {"remove", "idle"}
  BY DEF Remove, Removed, Return, Goto, Sound, Placed, TypeOK
<1>. QED
  BY <1>1, <1>2 DEF Sound, Placed, Careful

\* A command that the file system has refused something is "disturbed": it only has
\* to have a file where it needs one.
LEMMA SoundHindered ==
  ASSUME TypeOK, NEW p \in Processes, Sound(p), Hindered(p)
  PROVE  Sound(p)'
<1>. USE DEF TypeOK, Goto
<1>1. standing'[p] = "disturbed"
  BY DEF Hindered, LookThrows, ConfigUnopened, VerifyUnreadable, VerifyThrows, ListThrows,
     DownloadThrows, HashUnreadable, RemoveThrows, Refused
<1>2. Placed(p)
  BY DEF Sound
<1>3. CASE LookThrows(p) \/ ListThrows(p)
  <2>1. Placed(p)'
    BY <1>3 DEF LookThrows, ListThrows, OnMissing, Treat, Return, Placed
  <2>. QED
    BY <1>1, <2>1 DEF Sound, Alone
<1>4. CASE ConfigUnopened(p) \/ DownloadThrows(p) \/ RemoveThrows(p)
  BY <1>1, <1>4 DEF ConfigUnopened, DownloadThrows, RemoveThrows, Return, Sound, Placed, Alone
<1>5. CASE VerifyUnreadable(p) \/ VerifyThrows(p)
  BY <1>1, <1>5 DEF VerifyUnreadable, VerifyThrows, Treat, Sound, Placed, Alone
<1>6. CASE HashUnreadable(p)
  BY <1>1, <1>2, <1>6 DEF HashUnreadable, Failed, Sound, Placed, Alone
<1>. QED
  BY <1>3, <1>4, <1>5, <1>6 DEF Hindered

LEMMA SoundStep ==
  ASSUME IInv, NEW p \in Processes, Step(p)
  PROVE  \A q \in Processes : Sound(q)'
<1>1. TypeOK /\ Sound(p)
  BY DEF IInv
<1>2. Sound(p)'
  BY <1>1, SoundLook, SoundConfig, SoundVerify, SoundDownload, SoundRemove, SoundHindered DEF Step
<1>3. ASSUME NEW q \in Processes \ {p} PROVE Sound(q)'
  BY <1>1, StepSpares, SparedKeeps DEF IInv
<1>. QED
  BY <1>2, <1>3

LEMMA SoundOutside ==
  ASSUME IInv
  PROVE  /\ \A p \in Processes : Kill(p) => \A q \in Processes : Sound(q)'
         /\ \A p \in Processes, cmd \in Commands :
              Start(p, cmd) => \A q \in Processes : Sound(q)'
         /\ Release => \A q \in Processes : Sound(q)'
         /\ UNCHANGED vars => \A q \in Processes : Sound(q)'
<1>. TypeOK /\ \A p \in Processes : Sound(p)
  BY DEF IInv
<1>1. ASSUME NEW p \in Processes, Kill(p), NEW q \in Processes PROVE Sound(q)'
  <2>1. /\ pc'[p] = "idle" /\ result'[p] = "killed" /\ standing' = standing /\ op' = op
        /\ pc[p] # "idle"
    BY <1>1 DEF Kill, Return, Goto, DiskKept, TypeOK
  <2>2. standing[p] = "repairing" => op[p] \in {"pull", "force", "ensure"}
    BY DEF Sound, Repairing
  <2>3. Sound(p)'
    BY <2>1, <2>2, GivesUp
  <2>4. q # p => Spared(q)
    BY <1>1 DEF Kill, Return, Goto, DiskKept, Spared, TypeOK
  <2>. QED
    BY <2>3, <2>4, SparedKeeps
<1>2. ASSUME NEW p \in Processes, NEW cmd \in Commands, Start(p, cmd), NEW q \in Processes
      PROVE  Sound(q)'
  <2>1. /\ pc'[p] = IF cmd = "remove" THEN "remove" ELSE "look"
        /\ op'[p] = cmd /\ disk' = disk
        /\ standing'[p] = "repairing" => Repairable(cmd)
    BY <1>2 DEF Start, Goto, TypeOK
  <2>2. Repairable(cmd)' = Repairable(cmd)
    BY <2>1 DEF Repairable, VersionFits, Absent
  <2>3. Sound(p)'
    BY <2>1, <2>2 DEF Sound, Placed, Careful, Repairing, Ended, Repairable, VersionFits
  <2>4. q # p => Spared(q)
    BY <1>2 DEF Start, Goto, Spared, TypeOK
  <2>. QED
    BY <2>3, <2>4, SparedKeeps
<1>3. ASSUME Release, NEW q \in Processes PROVE Sound(q)'
  BY <1>3 DEF Release, local, Sound, Placed, Alone
<1>4. ASSUME UNCHANGED vars, NEW q \in Processes PROVE Sound(q)'
  BY <1>4, SparedKeeps DEF Spared, vars, local
<1>. QED
  BY <1>1, <1>2, <1>3, <1>4

\* The inductive invariant: types, and what each command knows of the disk.
THEOREM DownloaderInvariant == Spec => []IInv
<1>1. Init => IInv
  BY TypeInit, SoundInit DEF IInv
<1>2. IInv /\ [Next]_vars => IInv'
  BY TypeStep, TypeOthers, SoundStep, SoundOutside DEF IInv, Next
<1>. QED
  BY <1>1, <1>2, PTL DEF Spec

\* A pull that nobody disturbs, and whose transfers and operations on local files all
\* succeed, at a disk that it can repair, ends with success and every hash right
\* (pull_model, download_multiple_files).
THEOREM PullCompletes == Spec => []UndisturbedPullCompletes
<1>1. IInv => UndisturbedPullCompletes
  BY DEF IInv, Sound, Repairing, UndisturbedPullCompletes
<1>. QED
  BY <1>1, DownloaderInvariant, PTL

\* A pull that ran alone, was refused nothing by the file system and reports success
\* has left no listed file absent, unless the model needs a newer program (pull_model).
THEOREM SuccessIsPresence == Spec => []SuccessMeansPresent
<1>1. IInv => SuccessMeansPresent
  BY DEF IInv, Sound, Careful, SuccessMeansPresent
<1>. QED
  BY <1>1, DownloaderInvariant, PTL

\* A command that works alone writes to the path of the file it treats, which does
\* not hold a good one.
LEMMA AloneSpares ==
  ASSUME IInv, NEW p \in Processes, Replaces(p), Alone(p), NEW f \in Files, disk[f] = "good"
  PROVE  disk'[f] = "good"
<1>1. Sound(p) /\ Careful(p)
  BY DEF IInv, Sound
<1>2. File(p) # f /\ (pc[p] = "transfer" => handle[p] = "fresh")
  BY <1>1 DEF Replaces, Clean, Open, TransferFails, Arrives, WrongBytesArrive, Careful
<1>3. disk \in [Files -> Contents]
  BY DEF IInv, TypeOK
<1>. QED
  BY <1>2, <1>3 DEF Replaces, Clean, Open, TransferFails, Arrives, WrongBytesArrive,
     Write, WriteFailing

\* A command that works alone and is refused nothing by the file system never replaces
\* or removes a file that matches its hash (verify_and_clean_files, download_file).
THEOREM AloneDestroysNothing == Spec => AloneNeverDestroys
<1>1. IInv /\ [Next]_vars
        => [\A f \in Files : disk[f] = "good" /\ disk'[f] # "good"
              => \/ Release
                 \/ \E p \in Processes : Remove(p)
                 \/ \E p \in Processes : ~Alone(p) /\ Replaces(p)]_vars
  <2>1. SUFFICES ASSUME IInv, Next, NEW f \in Files, disk[f] = "good", disk'[f] # "good",
                        ~ Release, ~ \E p \in Processes : Remove(p)
                 PROVE  \E p \in Processes : ~Alone(p) /\ Replaces(p)
    OBVIOUS
  <2>2. PICK p \in Processes : Step(p)
    BY <2>1 DEF Next, Kill, Start, DiskKept
  <2>3. Replaces(p)
    BY <2>1, <2>2 DEF Step, Replaces, Look, ConfigGone, ConfigUnreadable, Incompatible,
       Outdated, MissingFiles, Ready, Verify, Verified, List, OpenFails, HashMatches,
       HashDiffers, Removed, DiskKept, Hindered, LookThrows, ConfigUnopened, VerifyUnreadable,
       VerifyThrows, ListThrows, DownloadThrows, HashUnreadable, RemoveThrows, Refused
  <2>. QED
    BY <2>1, <2>3, AloneSpares
<1>. QED
  BY <1>1, DownloaderInvariant, PTL DEF Spec, AloneNeverDestroys
=============================================================================
