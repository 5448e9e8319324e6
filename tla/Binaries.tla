------------------------------ MODULE Binaries ------------------------------
(***************************************************************************)
(* How a task pod comes by its terraform or tofu binary                    *)
(* (extract-terraform.sh, extract-tofu.sh), and the cache server of the    *)
(* controller that the pods share (cache_server.go), for one version and   *)
(* architecture.  A pod tries the archives of its image, the cache, the    *)
(* URL that its user gave and the download site, and puts what it          *)
(* downloaded into the cache, from where the other pods get it.            *)
(*                                                                         *)
(* The server writes an upload straight into the file that it serves: the  *)
(* file is truncated first, another upload of it may be under way, and     *)
(* so may a download.  The cache directory outlives the controller.        *)
(***************************************************************************)
EXTENDS Naturals, FiniteSets

CONSTANTS
    Pods,
    MaxCrashes,  \* crashes of the controller
    MaxKills     \* pods that die while they run the script

ASSUME BinariesAssumption == {MaxCrashes, MaxKills} \subseteq Nat

Source  == {"official", "custom"}
Content == Source \union {"broken"}

VARIABLES
    override,     \* the pods with a user-provided download URL
    autoDownload, \* INFRAKUBE_AUTO_DOWNLOAD
    bundled,      \* the image of the pods has an archive of the version
    file,         \* the file of the version in the cache
    upload,       \* the uploads that the server is writing, by pod
    download,     \* the downloads that the server is reading, by pod
    pc,           \* where the script of each pod is
    binary,       \* the binary of each pod
    cut,          \* the file is the part of an upload that a crash left
    mixed,        \* different binaries were written into the file at once
    torn,         \* history: the pods whose download overlapped an upload
    crashes, kills

vars == <<override, autoDownload, bundled, file, upload, download, pc, binary,
          cut, mixed, torn, crashes, kills>>

Absent == "absent"

\* An upload writes into the file of the cache ("linked"), or into one that was
\* removed since it was opened ("removed").
Writers == {p \in Pods : upload[p] = "linked"}

\* A pod in these places will run the task, or will not.
Ready  == "ready"
Failed == "failed"

TypeOK ==
    /\ override \subseteq Pods
    /\ {autoDownload, bundled, cut, mixed} \subseteq BOOLEAN
    /\ file \in Content \union {Absent}
    /\ upload \in [Pods -> {"no", "linked", "removed"}]
    /\ download \in [Pods -> Content \union {"no"}]
    /\ pc \in [Pods -> {"bundled", "cache", "reading", "url", "auto", "store",
                        "storing", Ready, Failed}]
    /\ binary \in [Pods -> Content \union {"none"}]
    /\ \A p \in Pods : /\ pc[p] = "storing" <=> upload[p] # "no"
                       /\ pc[p] = "reading" <=> download[p] # "no"
                       /\ pc[p] = Ready => binary[p] # "none"
    /\ torn \subseteq Pods
    /\ crashes \in 0..MaxCrashes /\ kills \in 0..MaxKills

Init ==
    /\ override \in SUBSET Pods
    /\ autoDownload \in BOOLEAN
    /\ bundled \in BOOLEAN
    /\ file = Absent
    /\ upload = [p \in Pods |-> "no"]
    /\ download = [p \in Pods |-> "no"]
    /\ pc = [p \in Pods |-> "bundled"]
    /\ binary = [p \in Pods |-> "none"]
    /\ cut = FALSE
    /\ mixed = FALSE
    /\ torn = {}
    /\ crashes = 0
    /\ kills = 0

settings == <<override, autoDownload, bundled>>
server   == <<file, upload, cut, mixed>>
-----------------------------------------------------------------------------
(***************************************************************************)
(* The script of a pod.                                                    *)
(***************************************************************************)
Goto(p, place) == pc' = [pc EXCEPT ![p] = place]

\* The archive in the image.  The image of Tofu tasks has none.
Extract(p) ==
    /\ pc[p] = "bundled"
    /\ IF bundled
       THEN /\ Goto(p, Ready)
            /\ binary' = [binary EXCEPT ![p] = "official"]
       ELSE Goto(p, "cache") /\ UNCHANGED binary
    /\ UNCHANGED <<settings, server, download, torn, crashes, kills>>

\* Mutant: curl without --fail, the page of a 404 is taken for the binary.
AfterCacheUnchecked(p) == Ready

\* Where a script that got nothing from the cache goes on.
AfterCache(p) == IF p \in override THEN "url" ELSE "auto"

\* A whole file is read, a file that is being written is read in part.  The
\* answer has no length: a part of a file is a good answer to the client.
GetFile(p) ==
    /\ pc[p] = "cache"
    /\ file # Absent
    /\ Goto(p, "reading")
    /\ download' = [download EXCEPT ![p] = file]
    /\ torn' = IF Writers = {} THEN torn ELSE torn \union {p}
    /\ UNCHANGED <<settings, server, binary, crashes, kills>>

\* The file is not there, the pod has no cache to ask, or no one answers.
GetNothing(p) ==
    /\ pc[p] = "cache"
    /\ Goto(p, AfterCache(p))
    /\ UNCHANGED <<settings, server, download, binary, torn, crashes, kills>>

GotFile(p) ==
    /\ pc[p] = "reading"
    /\ \E b \in {download[p]} \union (IF p \in torn THEN {"broken"} ELSE {}) :
          binary' = [binary EXCEPT ![p] = b]
    /\ Goto(p, Ready)
    /\ download' = [download EXCEPT ![p] = "no"]
    /\ UNCHANGED <<settings, server, torn, crashes, kills>>

\* The user's URL: a failed download or a wrong checksum ends the script.
DownloadURL(p) ==
    /\ pc[p] = "url"
    /\ \/ /\ Goto(p, "store")
          /\ binary' = [binary EXCEPT ![p] = "custom"]
       \/ Goto(p, Failed) /\ UNCHANGED binary
    /\ UNCHANGED <<settings, server, download, torn, crashes, kills>>

AutoDownload(p) ==
    /\ pc[p] = "auto"
    /\ \/ /\ autoDownload
          /\ Goto(p, "store")
          /\ binary' = [binary EXCEPT ![p] = "official"]
       \/ Goto(p, Failed) /\ UNCHANGED binary
    /\ UNCHANGED <<settings, server, download, torn, crashes, kills>>
-----------------------------------------------------------------------------
(***************************************************************************)
(* cache_binary, whose failure is ignored, and storeBinary.                *)
(***************************************************************************)
\* The file is created, or truncated under those who write or read it.
PutOpens(p) ==
    /\ pc[p] = "store"
    /\ Goto(p, "storing")
    /\ upload' = [upload EXCEPT ![p] = "linked"]
    /\ file' = "broken"
    /\ cut' = FALSE
    /\ mixed' = /\ Writers # {}
                /\ mixed \/ \E q \in Writers : binary[q] # binary[p]
    /\ torn' = torn \union {q \in Pods : pc[q] = "reading"}
    /\ UNCHANGED <<settings, download, binary, crashes, kills>>

\* The pod has no cache, or no one answers.
PutNothing(p) ==
    /\ pc[p] = "store"
    /\ Goto(p, Ready)
    /\ UNCHANGED <<settings, server, download, binary, torn, crashes, kills>>

\* The file after the upload of p ended: whole when no one else writes it, unless
\* another binary was written into it meanwhile.
PutEnds(p) ==
    /\ pc[p] = "storing"
    /\ Goto(p, Ready)
    /\ upload' = [upload EXCEPT ![p] = "no"]
    /\ IF upload[p] = "removed" THEN UNCHANGED file
       ELSE file' \in (IF Writers = {p} THEN {binary[p]} ELSE {"broken"})
                      \union (IF mixed THEN {"broken"} ELSE {})
    /\ UNCHANGED <<settings, download, binary, cut, mixed, torn, crashes,
                   kills>>

\* Mutant: the file of a failed upload stays.
RemoveNothing(p) ==
    /\ upload' = [upload EXCEPT ![p] = "no"]
    /\ UNCHANGED <<file, cut, mixed>>

\* os.Remove(binPath): the file of the path goes, whoever writes it.
Remove(p) ==
    /\ file' = Absent
    /\ cut' = FALSE
    /\ mixed' = FALSE
    /\ upload' = [q \in Pods |-> IF q = p THEN "no"
                                 ELSE IF upload[q] = "linked" THEN "removed"
                                 ELSE upload[q]]

\* The server cannot write the file to its end.
PutFails(p) ==
    /\ pc[p] = "storing"
    /\ Goto(p, Ready)
    /\ Remove(p)
    /\ UNCHANGED <<settings, download, binary, torn, crashes, kills>>
-----------------------------------------------------------------------------
(***************************************************************************)
(* Pods and the controller die.                                            *)
(***************************************************************************)
\* A pod dies: what it was uploading ends before its end.
Kill(p) ==
    /\ pc[p] \notin {Ready, Failed}
    /\ kills < MaxKills
    /\ kills' = kills + 1
    /\ Goto(p, Failed)
    /\ download' = [download EXCEPT ![p] = "no"]
    /\ IF pc[p] = "storing" THEN Remove(p) ELSE UNCHANGED server
    /\ UNCHANGED <<settings, binary, torn, crashes>>

\* The controller dies in the middle of its requests, and is there again.
Crash ==
    /\ crashes < MaxCrashes
    /\ crashes' = crashes + 1
    /\ cut' = (cut \/ Writers # {})
    /\ upload' = [p \in Pods |-> "no"]
    /\ download' = [p \in Pods |-> "no"]
    /\ pc' = [p \in Pods |-> CASE pc[p] = "storing" -> Ready
                               [] pc[p] = "reading" -> AfterCache(p)
                               [] OTHER -> pc[p]]
    /\ UNCHANGED <<settings, file, mixed, binary, torn, kills>>

Next ==
    \/ \E p \in Pods : \/ Extract(p) \/ GetFile(p) \/ GetNothing(p)
                       \/ GotFile(p) \/ DownloadURL(p) \/ AutoDownload(p)
                       \/ PutOpens(p) \/ PutNothing(p) \/ PutEnds(p)
                       \/ PutFails(p) \/ Kill(p)
    \/ Crash

Spec == Init /\ [][Next]_vars
-----------------------------------------------------------------------------
(***************************************************************************)
(* Properties.                                                             *)
(***************************************************************************)
\* The cache serves a part of a binary only while someone uploads it, after a
\* crash in the middle of an upload, or after uploads of different binaries met:
\* neither a pod that dies nor an upload that fails leaves one behind, in any
\* order of several uploads.
CachedBinariesAreWhole ==
    file = "broken" => Writers # {} \/ cut \/ mixed

\* While the controller stays up and all pods ask for the same binary, a pod has
\* a broken one only if it read the file during an upload.
OnlyTornBinariesAreBroken ==
    crashes = 0 /\ override \in {{}, Pods} =>
        \A p \in Pods : binary[p] = "broken" => p \in torn
=============================================================================
