--------------------------- MODULE BinariesProofs ---------------------------
(***************************************************************************)
(* What the cache server serves and what the pods run, for every number of *)
(* pods, crashes and pods that die.                                        *)
(***************************************************************************)
EXTENDS Binaries, TLAPS

\* The binary that a pod downloads itself.
Own(p) == IF p \in override THEN "custom" ELSE "official"

\* All pods ask for the same binary, and the controller stays up.
Uniform == override \in {{}, Pods}

BinariesInv ==
    /\ TypeOK
    /\ CachedBinariesAreWhole
    /\ cut => crashes > 0
    /\ mixed => ~Uniform
    /\ \A p \in Pods :
         /\ pc[p] = "url" => p \in override
         /\ pc[p] = "auto" => p \notin override
         /\ pc[p] \in {"store", "storing"} => binary[p] = Own(p)
         /\ crashes = 0 /\ Uniform /\ "broken" \in {download[p], binary[p]} => p \in torn

LEMMA Bounds == /\ 0 \in 0 .. MaxCrashes /\ 0 \in 0 .. MaxKills
                /\ MaxCrashes \in Nat /\ MaxKills \in Nat
BY BinariesAssumption

LEMMA BinariesStart == Init => BinariesInv
<1> SUFFICES ASSUME Init PROVE BinariesInv
  OBVIOUS
<1>1. TypeOK
  BY Bounds DEF Init, TypeOK, Content, Source, Absent, Ready, Failed
<1>2. CachedBinariesAreWhole
  BY DEF Init, CachedBinariesAreWhole, Absent
<1>3. QED
  BY <1>1, <1>2 DEF Init, BinariesInv

-----------------------------------------------------------------------------
(***************************************************************************)
(* The steps of a script                                                   *)
(***************************************************************************)
LEMMA ExtractStep ==
    ASSUME BinariesInv, NEW p \in Pods, Extract(p) PROVE BinariesInv'
BY DEF BinariesInv, TypeOK, CachedBinariesAreWhole, Writers, Own, Uniform, Extract,
       Goto, settings, server, Ready, Failed, Content, Source, Absent

\* A pod that reads a broken file while nobody writes it reads what a crash, or the
\* meeting of two binaries, left.
LEMMA GetFileStep ==
    ASSUME BinariesInv, NEW p \in Pods, GetFile(p) PROVE BinariesInv'
BY DEF BinariesInv, TypeOK, CachedBinariesAreWhole, Writers, Own, Uniform, GetFile,
       Goto, settings, server, Ready, Failed, Content, Source, Absent

LEMMA GetNothingStep ==
    ASSUME BinariesInv, NEW p \in Pods, GetNothing(p) PROVE BinariesInv'
BY DEF BinariesInv, TypeOK, CachedBinariesAreWhole, Writers, Own, Uniform, GetNothing,
       Goto, AfterCache, settings, server, Ready, Failed, Content, Source, Absent

LEMMA GotFileStep ==
    ASSUME BinariesInv, NEW p \in Pods, GotFile(p) PROVE BinariesInv'
BY DEF BinariesInv, TypeOK, CachedBinariesAreWhole, Writers, Own, Uniform, GotFile,
       Goto, settings, server, Ready, Failed, Content, Source, Absent

LEMMA DownloadURLStep ==
    ASSUME BinariesInv, NEW p \in Pods, DownloadURL(p) PROVE BinariesInv'
BY DEF BinariesInv, TypeOK, CachedBinariesAreWhole, Writers, Own, Uniform, DownloadURL,
       Goto, settings, server, Ready, Failed, Content, Source, Absent

LEMMA AutoDownloadStep ==
    ASSUME BinariesInv, NEW p \in Pods, AutoDownload(p) PROVE BinariesInv'
BY DEF BinariesInv, TypeOK, CachedBinariesAreWhole, Writers, Own, Uniform, AutoDownload,
       Goto, settings, server, Ready, Failed, Content, Source, Absent

\* Pods that ask for the same binary write the same.
LEMMA PutOpensStep ==
    ASSUME BinariesInv, NEW p \in Pods, PutOpens(p) PROVE BinariesInv'
BY DEF BinariesInv, TypeOK, CachedBinariesAreWhole, Writers, Own, Uniform, PutOpens,
       Goto, settings, server, Ready, Failed, Content, Source, Absent

LEMMA PutNothingStep ==
    ASSUME BinariesInv, NEW p \in Pods, PutNothing(p) PROVE BinariesInv'
BY DEF BinariesInv, TypeOK, CachedBinariesAreWhole, Writers, Own, Uniform, PutNothing,
       Goto, settings, server, Ready, Failed, Content, Source, Absent

\* The last of several uploads leaves a whole file, unless they were mixed.
LEMMA PutEndsStep ==
    ASSUME BinariesInv, NEW p \in Pods, PutEnds(p) PROVE BinariesInv'
BY DEF BinariesInv, TypeOK, CachedBinariesAreWhole, Writers, Own, Uniform, PutEnds,
       Goto, settings, server, Ready, Failed, Content, Source, Absent

LEMMA PutFailsStep ==
    ASSUME BinariesInv, NEW p \in Pods, PutFails(p) PROVE BinariesInv'
BY DEF BinariesInv, TypeOK, CachedBinariesAreWhole, Writers, Own, Uniform, PutFails,
       Goto, Remove, settings, server, Ready, Failed, Content, Source, Absent

LEMMA KillStep ==
    ASSUME BinariesInv, NEW p \in Pods, Kill(p) PROVE BinariesInv'
<1>1. kills' \in 0 .. MaxKills
  BY Bounds DEF BinariesInv, TypeOK, Kill
<1>2. CASE pc[p] = "storing"
  <2>1. /\ pc' = [pc EXCEPT ![p] = Failed]
        /\ download' = [download EXCEPT ![p] = "no"]
        /\ Remove(p)
        /\ UNCHANGED <<override, autoDownload, bundled, binary, torn, crashes>>
    BY <1>2 DEF Kill, Goto, settings
  <2>2. TypeOK'
    BY <1>1, <1>2, <2>1 DEF BinariesInv, TypeOK, Remove, Ready, Failed, Content, Source, Absent
  <2>3. CachedBinariesAreWhole'
    BY <2>1 DEF Remove, CachedBinariesAreWhole, Absent
  <2>4. QED
    BY <2>1, <2>2, <2>3 DEF BinariesInv, TypeOK, Remove, Own, Uniform, Failed
<1>3. CASE pc[p] # "storing"
  BY <1>1, <1>3 DEF BinariesInv, TypeOK, CachedBinariesAreWhole, Writers, Own, Uniform,
     Kill, Goto, settings, server, Ready, Failed, Content, Source, Absent
<1>4. QED
  BY <1>2, <1>3

LEMMA CrashStep ==
    ASSUME BinariesInv, Crash PROVE BinariesInv'
<1>1. crashes' \in 0 .. MaxCrashes /\ crashes' > 0
  BY Bounds DEF BinariesInv, TypeOK, Crash
<1>2. ASSUME NEW p \in Pods
      PROVE  /\ pc'[p] = CASE pc[p] = "storing" -> Ready
                            [] pc[p] = "reading" -> AfterCache(p)
                            [] OTHER -> pc[p]
             /\ upload'[p] = "no" /\ download'[p] = "no" /\ binary'[p] = binary[p]
  BY DEF Crash
<1>3. TypeOK'
  <2>1. pc' = [p \in Pods |-> pc'[p]]
    BY DEF Crash
  <2>2. ASSUME NEW p \in Pods
        PROVE  /\ pc'[p] \in {"bundled", "cache", "url", "auto", "store", Ready, Failed}
               /\ pc'[p] = Ready => binary[p] # "none"
    BY <1>2, <2>2 DEF BinariesInv, TypeOK, AfterCache, Own, Ready, Failed
  <2>3. pc' \in [Pods -> {"bundled", "cache", "url", "auto", "store", Ready, Failed}]
    BY <2>1, <2>2
  <2>4. UNCHANGED <<override, autoDownload, bundled, file, mixed, binary, torn, kills>>
        /\ upload' = [p \in Pods |-> "no"] /\ download' = [p \in Pods |-> "no"]
        /\ cut' \in BOOLEAN
    BY DEF Crash, settings
  <2>5. QED
    BY <1>1, <1>2, <2>2, <2>3, <2>4 DEF BinariesInv, TypeOK, Ready, Failed
<1>4. CachedBinariesAreWhole'
  BY DEF BinariesInv, CachedBinariesAreWhole, Crash, Writers
<1>5. QED
  BY <1>1, <1>2, <1>3, <1>4 DEF BinariesInv, TypeOK, Crash, settings, AfterCache, Own,
     Uniform, Ready

LEMMA BinariesInductive == BinariesInv /\ [Next]_vars => BinariesInv'
<1> SUFFICES ASSUME BinariesInv, [Next]_vars PROVE BinariesInv'
  OBVIOUS
<1>1. CASE UNCHANGED vars
  BY <1>1 DEF BinariesInv, TypeOK, CachedBinariesAreWhole, Writers, Own, Uniform, vars
<1>2. QED
  BY <1>1, ExtractStep, GetFileStep, GetNothingStep, GotFileStep, DownloadURLStep,
     AutoDownloadStep, PutOpensStep, PutNothingStep, PutEndsStep, PutFailsStep,
     KillStep, CrashStep DEF Next

LEMMA BinariesInvHolds == Spec => []BinariesInv
BY BinariesStart, BinariesInductive, PTL DEF Spec

\* The state has its type; above all, no pod runs its task without a binary, and
\* the server has an upload or a download exactly for the pods that wait for one
\* (extract-terraform.sh, extract-tofu.sh, cache_server.go).
THEOREM BinariesTypes == Spec => []TypeOK
<1>1. BinariesInv => TypeOK
  BY DEF BinariesInv
<1>2. QED
  BY <1>1, BinariesInvHolds, PTL

\* The cache serves a part of a binary only during an upload, after a crash in the
\* middle of one, or after uploads of different binaries met (storeBinary of
\* cache_server.go), in any order of any number of uploads.
THEOREM CacheIsWhole == Spec => []CachedBinariesAreWhole
<1>1. BinariesInv => CachedBinariesAreWhole
  BY DEF BinariesInv
<1>2. QED
  BY <1>1, BinariesInvHolds, PTL

\* While the controller stays up and all pods ask for the same binary, a broken
\* one comes only of a download that an upload overlapped (getBinary and
\* storeBinary of cache_server.go).
THEOREM OnlyTornAreBroken == Spec => []OnlyTornBinariesAreBroken
<1>1. BinariesInv => OnlyTornBinariesAreBroken
  BY DEF BinariesInv, OnlyTornBinariesAreBroken, Uniform
<1>2. QED
  BY <1>1, BinariesInvHolds, PTL
=============================================================================
