--------------------------- MODULE ModelDownloader ---------------------------
(***************************************************************************)
(* The files of one model on disk, and the commands that check, download,   *)
(* repair and remove them: flm pull, pull --force, check and remove, and the *)
(* server loading a model it may have to pull first.  Every command is a    *)
(* process of its own; several may work on the same directory, and each may  *)
(* be killed between any two of its steps.  Transfers write straight to the  *)
(* final path.  Operations on the local file system may fail.  Listed files  *)
(* are numbered in the order of "files" in model_list.json; all of them have *)
(* metadata in model_info.json.                                             *)
(***************************************************************************)
EXTENDS Integers

CONSTANTS Processes,   \* processes that may run a command
          NumFiles,    \* files listed for the model
          Commands,    \* commands in use
          MaxRetries   \* max_retries of download_with_retry

ASSUME DownloaderAssumption ==
  /\ NumFiles \in Nat \ {0}
  /\ Commands \subseteq {"pull", "force", "check", "ensure", "remove"}
  /\ MaxRetries \in Nat \ {0}

Files == 1..NumFiles

Config == 1   \* config.json

(***************************************************************************)
(* standing remembers what the properties need to know of a command:        *)
(* "repairing"  it began alone, at a disk that it should make complete      *)
(* "alone"      it began alone, at another                                  *)
(* "failing"    since then a transfer of its own has gone wrong             *)
(* "disturbed"  others were there when it began or have changed the disk, or *)
(*              the file system has refused it one of its own operations    *)
(***************************************************************************)
VARIABLES
  disk,     \* what is at the path of each file
  pc,       \* where each process is in its command
  op,       \* the command it runs, or ran last
  todo,     \* files it has still to treat
  last,     \* it is in a verification that its command asked for itself
  attempt,  \* failed attempts at the file being downloaded
  handle,   \* what its open output file has become
  result,   \* what its last command returned
  standing  \* how its command has fared; no variable of the code

local == <<pc, op, todo, last, attempt, handle, result>>
vars == <<disk, local, standing>>

(***************************************************************************)
(* "absent"  no regular file                                               *)
(* "wrong"   cut short, still being written, or other bytes than those that  *)
(*           model_info.json gives the hash of; no JSON if it is config.json *)
(* "old"     a config.json below flm_min_version                            *)
(* "new"     a config.json of a model that needs a newer program            *)
(* "stale"   a config.json of a version that fits, with other bytes         *)
(* "good"    the hash matches                                              *)
(***************************************************************************)
Mismatched(f) == IF f = Config THEN {"wrong", "old", "new", "stale"} ELSE {"wrong"}

Contents == {"absent", "wrong", "old", "new", "stale", "good"}

(***************************************************************************)
(* "look"     is_model_downloaded, about to see which files exist           *)
(* "config"   config.json was there, about to be read                       *)
(* "verify"   verify_and_clean_files, about to hash a file                  *)
(* "clean"    the hash did not match, about to remove the file              *)
(* "list"     pull_model, about to list what to download                    *)
(* "open"     about to open the next file                                  *)
(* "transfer" curl_easy_perform writes into it                             *)
(* "hash"     it is closed, about to be hashed                              *)
(* "remove"   remove_model, about to remove the next file                   *)
(***************************************************************************)
PcValues == {"idle", "look", "config", "verify", "clean", "list", "open",
             "transfer", "hash", "remove"}

Absent == {f \in Files : disk[f] = "absent"}

AllGood == \A f \in Files : disk[f] = "good"

\* check_model_compatibility finds nothing to object to.
VersionFits == disk[Config] \in {"good", "stale"}

First(S) == CHOOSE f \in S : \A g \in S : f <= g

File(p) == First(todo[p])

Busy == {p \in Processes : pc[p] # "idle"}

Init ==
  /\ disk \in [Files -> {"absent"}]
  /\ pc = [p \in Processes |-> "idle"]
  /\ op = [p \in Processes |-> "pull"]
  /\ todo = [p \in Processes |-> {}]
  /\ last = [p \in Processes |-> FALSE]
  /\ attempt = [p \in Processes |-> 0]
  /\ handle = [p \in Processes |-> "none"]
  /\ result = [p \in Processes |-> "none"]
  /\ standing = [p \in Processes |-> "alone"]

-----------------------------------------------------------------------------
Goto(p, label) == pc' = [pc EXCEPT ![p] = label]

\* The command returns, or its process ends.
Return(p, r) ==
  /\ Goto(p, "idle")
  /\ result' = [result EXCEPT ![p] = r]
  /\ todo' = [todo EXCEPT ![p] = {}]
  /\ last' = [last EXCEPT ![p] = FALSE]
  /\ attempt' = [attempt EXCEPT ![p] = 0]
  /\ handle' = [handle EXCEPT ![p] = "none"]
  /\ UNCHANGED op

\* p goes on with the files S.
Treat(p, label, S) ==
  /\ Goto(p, label)
  /\ todo' = [todo EXCEPT ![p] = S]
  /\ UNCHANGED <<op, attempt, handle, result>>

DiskKept == UNCHANGED <<disk, standing>>

\* p puts c at the path of f; the commands of the others are disturbed.
Write(p, f, c) ==
  /\ disk' = [disk EXCEPT ![f] = c]
  /\ standing' = [q \in Processes |-> IF q = p THEN standing[q] ELSE "disturbed"]

\* The same, where the command of p has failed to get what it wanted.
WriteFailing(p, f, c) ==
  /\ disk' = [disk EXCEPT ![f] = c]
  /\ standing' = [q \in Processes |-> IF q = p /\ standing[q] # "disturbed"
                                       THEN "failing" ELSE "disturbed"]

\* An operation on a local file fails: what is on disk stays, and the command has
\* taken it for something else or ends.
Refused(p) ==
  /\ standing' = [standing EXCEPT ![p] = "disturbed"]
  /\ UNCHANGED disk

Fails(p) ==
  standing' = [standing EXCEPT ![p] = IF @ = "disturbed" THEN @ ELSE "failing"]

\* What an unlinked or truncated path does to those who write to it.
Handles(p, f, h) ==
  [q \in Processes |-> IF q # p /\ handle[q] # "none" /\ File(q) = f /\ handle[q] # "unlinked"
                       THEN h ELSE handle[q]]

\* Everything the command needs is there or can be downloaded: config.json can be
\* read and asks for a verification, or nothing on disk is wrong.
Repairable(cmd) ==
  /\ cmd \in {"pull", "force", "ensure"}
  /\ \/ disk[Config] = "old"
     \/ VersionFits /\ Absent = {} /\ cmd = "force"
     \/ \A f \in Files : disk[f] \in {"absent", "good"}

\* A command is given; "remove" lists the directory, the others look for files.
Start(p, cmd) ==
  /\ pc[p] = "idle"
  /\ Goto(p, IF cmd = "remove" THEN "remove" ELSE "look")
  /\ op' = [op EXCEPT ![p] = cmd]
  /\ todo' = [todo EXCEPT ![p] = IF cmd = "remove" THEN Files \ Absent ELSE {}]
  /\ result' = [result EXCEPT ![p] = "none"]
  /\ standing' = [standing EXCEPT ![p] = IF Busy # {} THEN "disturbed"
                                         ELSE IF Repairable(cmd) THEN "repairing"
                                         ELSE "alone"]
  /\ UNCHANGED <<disk, last, attempt, handle>>

-----------------------------------------------------------------------------
(* is_model_downloaded, and what each caller makes of its answer *)

\* pull_model goes on to list files, ensure_model_loaded calls pull_model, which
\* looks again, and check_model reports.
OnMissing(p) ==
  \/ op[p] \in {"pull", "force"} /\ Treat(p, "list", {}) /\ UNCHANGED last
  \/ /\ op[p] = "ensure"
     /\ Goto(p, "look")
     /\ op' = [op EXCEPT ![p] = "pull"]
     /\ todo' = [todo EXCEPT ![p] = {}]
     /\ UNCHANGED <<last, attempt, handle, result>>
  \/ op[p] = "check" /\ Return(p, "true")

Look(p) ==
  /\ pc[p] = "look"
  /\ IF Config \in Absent
       THEN OnMissing(p)
       ELSE Treat(p, "config", Absent) /\ UNCHANGED last
  /\ DiskKept

\* What a loop over the files that throws at file f has found missing by then.
MissingBefore(f) == {g \in Absent : g < f}

\* get_missing_files catches what file_exists throws, and returns what it has.
LookThrows(p) ==
  /\ pc[p] = "look"
  /\ \E f \in Files :
       IF Config \in MissingBefore(f)
         THEN OnMissing(p)
         ELSE Treat(p, "config", MissingBefore(f)) /\ UNCHANGED last
  /\ Refused(p)

\* config.json is there and cannot be opened: exit(1) as well.
ConfigUnopened(p) ==
  /\ pc[p] = "config" /\ disk[Config] # "absent"
  /\ Return(p, "killed")
  /\ Refused(p)

\* Another process removed it meanwhile: _load_json calls exit(1).
ConfigGone(p) ==
  /\ pc[p] = "config" /\ disk[Config] = "absent"
  /\ Return(p, "killed")
  /\ DiskKept

\* json::parse throws; pull_model catches it, the other callers do not.
ConfigUnreadable(p) ==
  /\ pc[p] = "config" /\ disk[Config] = "wrong"
  /\ Return(p, "false")
  /\ DiskKept

\* pull_model and check_model call this a success.
Incompatible(p) ==
  /\ pc[p] = "config" /\ disk[Config] = "new"
  /\ Return(p, IF op[p] = "ensure" THEN "false" ELSE "true")
  /\ DiskKept

Outdated(p) ==
  /\ pc[p] = "config" /\ disk[Config] = "old"
  /\ Treat(p, "verify", Files)
  /\ last' = [last EXCEPT ![p] = FALSE]
  /\ DiskKept

\* The version is right, but files were missing when p looked.
MissingFiles(p) ==
  /\ pc[p] = "config" /\ VersionFits /\ todo[p] # {}
  /\ OnMissing(p)
  /\ DiskKept

\* Files that are missing besides config.json are not looked at.
ReadyWithMissing(p) ==
  /\ pc[p] = "config" /\ VersionFits
  /\ IF op[p] \in {"force", "check"}
       THEN Treat(p, "verify", Files) /\ last' = [last EXCEPT ![p] = TRUE]
       ELSE Return(p, "true")
  /\ DiskKept

Ready(p) ==
  /\ pc[p] = "config" /\ VersionFits /\ todo[p] = {}
  /\ IF op[p] \in {"force", "check"}
       THEN Treat(p, "verify", Files) /\ last' = [last EXCEPT ![p] = TRUE]
       ELSE Return(p, "true")
  /\ DiskKept

-----------------------------------------------------------------------------
(* verify_and_clean_files *)

\* A file that matches is kept, one that is not there is only reported.
Verify(p) ==
  /\ pc[p] = "verify" /\ todo[p] # {}
  /\ IF disk[File(p)] \in {"absent", "good"}
       THEN Treat(p, "verify", todo[p] \ {File(p)})
       ELSE Treat(p, "clean", todo[p])
  /\ UNCHANGED last
  /\ DiskKept

\* A file that cannot be opened hashes to the empty string, even a good one.
VerifyUnreadable(p) ==
  /\ pc[p] = "verify" /\ todo[p] # {} /\ disk[File(p)] # "absent"
  /\ Treat(p, "clean", todo[p])
  /\ UNCHANGED last
  /\ Refused(p)

\* model_info.json cannot be read, or a file cannot be looked at or removed: the
\* files that are left are not verified, and the callers go on.
VerifyThrows(p) ==
  /\ pc[p] \in {"verify", "clean"} /\ todo[p] # {}
  /\ Treat(p, "verify", {})
  /\ UNCHANGED last
  /\ Refused(p)

\* The file is reported, not removed.
CleanForgotten(p) ==
  /\ pc[p] = "clean"
  /\ Treat(p, "verify", todo[p] \ {File(p)})
  /\ UNCHANGED last
  /\ DiskKept

\* Whatever is at the path by now is removed; remove returns false, without a
\* difference, if that is nothing.
Clean(p) ==
  /\ pc[p] = "clean"
  /\ Write(p, File(p), "absent")
  /\ Goto(p, "verify")
  /\ todo' = [todo EXCEPT ![p] = @ \ {File(p)}]
  /\ handle' = Handles(p, File(p), "unlinked")
  /\ UNCHANGED <<op, last, attempt, result>>

\* An outdated model is Outdated still; check_model verifies it once more.
Verified(p) ==
  /\ pc[p] = "verify" /\ todo[p] = {}
  /\ \/ op[p] = "ensure" /\ OnMissing(p)
     \/ op[p] \in {"pull", "force"} /\ Treat(p, "list", {}) /\ UNCHANGED last
     \/ /\ op[p] = "check" /\ ~last[p]
        /\ Treat(p, "verify", Files)
        /\ last' = [last EXCEPT ![p] = TRUE]
     \/ op[p] = "check" /\ last[p] /\ Return(p, "true")
  /\ DiskKept

-----------------------------------------------------------------------------
(* The rest of pull_model, download_multiple_files and download_file *)

\* Present files are listed as well.
ListedAll == Files

\* build_download_list
Listed == Absent

List(p) ==
  /\ pc[p] = "list"
  /\ IF Listed = {}
       THEN Return(p, "true")
       ELSE Treat(p, "open", Listed) /\ UNCHANGED last
  /\ DiskKept

\* build_download_list, and get_missing_files before it, catch what they throw and
\* return what they have, be it nothing: "No files to download".
ListThrows(p) ==
  /\ pc[p] = "list"
  /\ \E f \in Files :
       IF MissingBefore(f) = {}
         THEN Return(p, "true")
         ELSE Treat(p, "open", MissingBefore(f)) /\ UNCHANGED last
  /\ Refused(p)

\* fopen creates the file or truncates what is there.
Open(p) ==
  /\ pc[p] = "open"
  /\ Write(p, File(p), "wrong")
  /\ Goto(p, "transfer")
  /\ handle' = [Handles(p, File(p), "truncated") EXCEPT ![p] = "fresh"]
  /\ UNCHANGED <<op, todo, last, attempt, result>>

\* A failing attempt is not counted.
RetryForEver(p, h) ==
  /\ Goto(p, "open")
  /\ handle' = h
  /\ UNCHANGED <<op, todo, last, attempt, result>>

\* The last attempt is followed by one more.
RetryOnceMore(p, h) ==
  \/ /\ attempt[p] < MaxRetries
     /\ Goto(p, "open")
     /\ attempt' = [attempt EXCEPT ![p] = @ + 1]
     /\ handle' = h
     /\ UNCHANGED <<op, todo, last, result>>
  \/ /\ attempt[p] = MaxRetries
     /\ Return(p, "false")

\* download_with_retry: try again, or make pull_model return false.
Failed(p, h) ==
  \/ /\ attempt[p] + 1 < MaxRetries
     /\ Goto(p, "open")
     /\ attempt' = [attempt EXCEPT ![p] = @ + 1]
     /\ handle' = h
     /\ UNCHANGED <<op, todo, last, result>>
  \/ /\ attempt[p] + 1 = MaxRetries
     /\ Goto(p, "idle")
     /\ result' = [result EXCEPT ![p] = "false"]
     /\ todo' = [todo EXCEPT ![p] = {}]
     /\ last' = [last EXCEPT ![p] = FALSE]
     /\ attempt' = [attempt EXCEPT ![p] = 0]
     /\ handle' = h
     /\ UNCHANGED op

\* The file cannot be opened, or curl cannot be set up.
OpenFails(p) ==
  /\ pc[p] = "open"
  /\ Failed(p, handle)
  /\ Fails(p)
  /\ UNCHANGED disk

\* A curl error or its timeout: whatever is at the path is removed.
TransferFails(p) ==
  /\ pc[p] = "transfer"
  /\ WriteFailing(p, File(p), "absent")
  /\ Failed(p, [Handles(p, File(p), "unlinked") EXCEPT ![p] = "none"])

\* All the bytes arrived.  A file that others truncated meanwhile has holes, unless
\* they had not gone far or have filled them.
Arrives(p) ==
  /\ pc[p] = "transfer"
  /\ \/ handle[p] = "fresh" /\ Write(p, File(p), "good")
     \/ /\ handle[p] = "truncated"
        /\ \E c \in {"good", "wrong"} :
             /\ disk[File(p)] = "good" => c = "good"
             /\ Write(p, File(p), c)
     \/ handle[p] = "unlinked" /\ DiskKept
  /\ Goto(p, "hash")
  /\ handle' = [handle EXCEPT ![p] = "none"]
  /\ UNCHANGED <<op, todo, last, attempt, result>>

\* Other bytes arrived: an error page, which curl takes for a success, or a file
\* of another release.
WrongBytesArrive(p) ==
  /\ pc[p] = "transfer"
  /\ \/ /\ handle[p] # "unlinked"
        /\ \E c \in IF handle[p] = "fresh" THEN Mismatched(File(p)) ELSE {"wrong"} :
             WriteFailing(p, File(p), c)
     \/ handle[p] = "unlinked" /\ Fails(p) /\ UNCHANGED disk
  /\ Goto(p, "hash")
  /\ handle' = [handle EXCEPT ![p] = "none"]
  /\ UNCHANGED <<op, todo, last, attempt, result>>

HashMatches(p) ==
  /\ pc[p] = "hash" /\ disk[File(p)] = "good"
  /\ IF todo[p] = {File(p)}
       THEN Return(p, "true")
       ELSE /\ Goto(p, "open")
            /\ todo' = [todo EXCEPT ![p] = @ \ {File(p)}]
            /\ attempt' = [attempt EXCEPT ![p] = 0]
            /\ UNCHANGED <<op, last, handle, result>>
  /\ DiskKept

\* The file stays where it is.
HashDiffers(p) ==
  /\ pc[p] = "hash" /\ disk[File(p)] # "good"
  /\ Failed(p, handle)
  /\ DiskKept

\* create_directories, or the removal of what a failed transfer has left, throws:
\* pull_model returns false at once.
DownloadThrows(p) ==
  /\ pc[p] \in {"open", "transfer"}
  /\ Return(p, "false")
  /\ Refused(p)

\* A good file that cannot be opened again does not match either.
HashUnreadable(p) ==
  /\ pc[p] = "hash" /\ disk[File(p)] = "good"
  /\ Failed(p, handle)
  /\ Refused(p)

-----------------------------------------------------------------------------
(* remove_model *)

Remove(p) ==
  /\ pc[p] = "remove" /\ todo[p] # {}
  /\ \E f \in todo[p] :
       /\ Write(p, f, "absent")
       /\ todo' = [todo EXCEPT ![p] = @ \ {f}]
       /\ handle' = Handles(p, f, "unlinked")
  /\ UNCHANGED <<pc, op, last, attempt, result>>

\* The directory goes too, when nobody put a file there meanwhile.
Removed(p) ==
  /\ pc[p] = "remove" /\ todo[p] = {}
  /\ Return(p, IF Absent = Files THEN "true" ELSE "false")
  /\ DiskKept

\* The directory cannot be listed, or a file in it cannot be removed.
RemoveThrows(p) ==
  /\ pc[p] = "remove"
  /\ Return(p, "false")
  /\ Refused(p)

-----------------------------------------------------------------------------
(* Outside of the commands *)

\* A process is killed.
Kill(p) ==
  /\ pc[p] # "idle"
  /\ Return(p, "killed")
  /\ DiskKept

\* Another release of the program is installed: its model_info.json no longer
\* matches some files, or its version is that of the config.json now.
Release ==
  /\ Busy = {}
  /\ \/ \E S \in SUBSET Files \ {{}} :
          /\ \A f \in S : disk[f] = "good"
          /\ \E c \in Mismatched(Config) \ {"wrong"} :
               disk' = [f \in Files |-> IF f \notin S THEN disk[f]
                                        ELSE IF f = Config THEN c ELSE "wrong"]
     \/ /\ disk[Config] \in {"old", "new", "stale"}
        /\ \E c \in {"old", "new", "stale", "good"} : disk' = [disk EXCEPT ![Config] = c]
  /\ standing' = [p \in Processes |-> "disturbed"]
  /\ UNCHANGED local

\* The file system refuses the command something.
Hindered(p) ==
  \/ LookThrows(p) \/ ConfigUnopened(p) \/ VerifyUnreadable(p) \/ VerifyThrows(p)
  \/ ListThrows(p) \/ DownloadThrows(p) \/ HashUnreadable(p) \/ RemoveThrows(p)

Step(p) ==
  \/ Look(p) \/ ConfigGone(p) \/ ConfigUnreadable(p) \/ Incompatible(p) \/ Outdated(p)
  \/ MissingFiles(p) \/ Ready(p) \/ Verify(p) \/ Clean(p) \/ Verified(p)
  \/ List(p) \/ Open(p) \/ OpenFails(p) \/ TransferFails(p) \/ Arrives(p)
  \/ WrongBytesArrive(p) \/ HashMatches(p) \/ HashDiffers(p) \/ Remove(p) \/ Removed(p)
  \/ Hindered(p)

Next ==
  \/ \E p \in Processes : Step(p) \/ Kill(p) \/ \E cmd \in Commands : Start(p, cmd)
  \/ Release

Spec == Init /\ [][Next]_vars

\* Commands go on: transfers end, by success, error or the timeout of an hour.
\* Nobody is made to give a command.
FairSpec == Spec /\ \A p \in Processes : WF_vars(Step(p))

-----------------------------------------------------------------------------
TypeOK ==
  /\ disk \in [Files -> Contents]
  /\ pc \in [Processes -> PcValues]
  /\ op \in [Processes -> {"pull", "force", "check", "ensure", "remove"}]
  /\ todo \in [Processes -> SUBSET Files]
  /\ last \in [Processes -> BOOLEAN]
  /\ attempt \in [Processes -> 0..MaxRetries - 1]
  /\ handle \in [Processes -> {"none", "fresh", "truncated", "unlinked"}]
  /\ result \in [Processes -> {"none", "true", "false", "killed"}]
  /\ standing \in [Processes -> {"repairing", "alone", "failing", "disturbed"}]

Alone(p) == standing[p] # "disturbed"

Replaces(p) ==
  Clean(p) \/ Open(p) \/ TransferFails(p) \/ Arrives(p) \/ WrongBytesArrive(p)

\* A command that works alone and that the file system refuses nothing, whatever
\* its transfers bring and whenever it is killed, never replaces or removes a file
\* that matches its hash: only flm remove does, or a new release, or commands that
\* are disturbed (verify_and_clean_files, download_file).
AloneNeverDestroys ==
  [][\A f \in Files : disk[f] = "good" /\ disk'[f] # "good"
       => \/ Release
          \/ \E p \in Processes : Remove(p)
          \/ \E p \in Processes : ~Alone(p) /\ Replaces(p)]_vars

Ended(p) == pc[p] = "idle" /\ result[p] \in {"true", "false"}

\* pull_model does make a model complete, when it finds a config.json that asks
\* for a verification, all files with --force, or nothing but good files, and when
\* no other command, transfer or operation on a local file gets in its way: it then
\* ends with success and every hash right, however many files were cleaned.
UndisturbedPullCompletes ==
  \A p \in Processes :
    Ended(p) /\ op[p] \in {"pull", "force"} /\ standing[p] = "repairing"
      => result[p] = "true" /\ AllGood

\* A pull that ran alone and reports success has left no listed file absent, even
\* after transfers that failed, unless it did nothing since the model needs a newer
\* program.  An error of the file system that build_download_list catches is no
\* failure to pull_model, so nothing is said of a pull that met one.
SuccessMeansPresent ==
  \A p \in Processes :
    pc[p] = "idle" /\ op[p] \in {"pull", "force", "ensure"} /\ result[p] = "true" /\ Alone(p)
      => Absent = {} \/ disk[Config] = "new"

\* Every command ends, also one whose files are removed, truncated or replaced by
\* others again and again, or refused by the file system.
EveryCommandEnds == \A p \in Processes : pc[p] # "idle" ~> pc[p] = "idle"

\* "Sometimes downloads from HuggingFace may get corrupted.  If this happens, run
\* flm pull <model_tag> --force": a forced pull that works alone and whose
\* transfers succeed leaves every file right, unless it needs a newer program.
ForcedPullRepairs ==
  \A p \in Processes :
    Ended(p) /\ op[p] = "force" /\ standing[p] \in {"alone", "repairing"} /\ disk[Config] # "new" => AllGood
=============================================================================
