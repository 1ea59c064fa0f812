--------------------------- MODULE UpdatesProofs ----------------------------
(***************************************************************************)
(* What the updater is given, and how often, for any packages and any      *)
(* update channels, and a process that is killed any number of times.      *)
(***************************************************************************)
EXTENDS Updates, TLAPS

Installing == process \in {"installing", "installing at exit"}

(* The flag promises files that no updater was started for, and it is gone *)
(* from memory and disk before one is.                                     *)
FlagIsFresh ==
  /\ flag \/ flagOnDisk \/ Installing => fresh
  /\ Installing => ~flag /\ ~flagOnDisk

(* Only a running process downloads or is being configured.                *)
RunningOnly == updater # "none" \/ channelBefore # {} => process = "running"

(* A script names packages that are there, and so do the parts of the one  *)
(* that is being made.                                                     *)
ScriptsFollowPackages ==
  /\ script \subseteq packages \/ torn
  /\ allScripts \subseteq packages
  /\ updater = "none" => allScripts = {}
  /\ updater = "script" => current \subseteq packages

(* The channel of a download, and of what the flag promises, is the one    *)
(* configured, or the one that was before the dialog was opened.           *)
OfChannel(c) == IF channelBefore = {} THEN c = channel ELSE channelBefore = {c}

ChannelIsKept ==
  /\ updater # "none" => OfChannel(channelOnStart)
  /\ flag \/ flagOnDisk \/ Installing => torn \/ script = {} \/ OfChannel(source)

UpdatesInv ==
  FlagIsFresh /\ RunningOnly /\ ScriptsFollowPackages /\ ChannelIsKept

LEMMA UpdatesInitInv == UpdatesInit => UpdatesInv
BY DEF UpdatesInit, UpdatesInv, FlagIsFresh, RunningOnly, ScriptsFollowPackages,
       ChannelIsKept, Installing

LEMMA UpdatesStep == UpdatesInv /\ [UpdatesNext]_updVars => UpdatesInv'
<1> SUFFICES ASSUME UpdatesInv, [UpdatesNext]_updVars PROVE UpdatesInv'
  OBVIOUS
<1> USE DEF UpdatesInv, FlagIsFresh, RunningOnly, ScriptsFollowPackages,
            ChannelIsKept, OfChannel, Installing, configVars, downloadVars,
            diskVars, NothingDownloading, Finish, Working, NextPackage
<1>1. ASSUME NEW b, ProcessStarts(b) PROVE UpdatesInv'
  BY <1>1 DEF ProcessStarts
<1>2. ASSUME NEW b, Quit(b) PROVE UpdatesInv'
  BY <1>2 DEF Quit
<1>3. ASSUME NEW b, DialogClosed(b) PROVE UpdatesInv'
  BY <1>3 DEF DialogClosed
<1>4. CASE Pending
  BY <1>4 DEF Pending
<1>5. CASE NothingPending
  BY <1>5 DEF NothingPending
<1>6. CASE UpdaterStarted
  BY <1>6 DEF UpdaterStarted
<1>7. CASE UpdaterNotStarted
  BY <1>7 DEF UpdaterNotStarted
<1>8. CASE ProcessEnds
  BY <1>8 DEF ProcessEnds
<1>9. CASE Killed
  BY <1>9 DEF Killed
<1>10. CASE CheckForUpdates
  BY <1>10 DEF CheckForUpdates
<1>11. ASSUME NEW kept, NEW keptScript, KilledWhileRemoving(kept, keptScript)
       PROVE  UpdatesInv'
  BY <1>11 DEF KilledWhileRemoving
<1>12. CASE Fail
  BY <1>12 DEF Fail
<1>13. CASE NothingNew
  BY <1>13 DEF NothingNew
<1>14. ASSUME NEW new, NewPackages(new) PROVE UpdatesInv'
  BY <1>14 DEF NewPackages
<1>15. ASSUME NEW p, Confirmed(p) PROVE UpdatesInv'
  BY <1>15 DEF Confirmed
<1>16. ASSUME NEW p, ScriptDownloaded(p) PROVE UpdatesInv'
  BY <1>16 DEF ScriptDownloaded
<1>17. CASE PackageDownloaded
  BY <1>17 DEF PackageDownloaded
<1>18. CASE LastScriptDownloaded
  BY <1>18 DEF LastScriptDownloaded
<1>19. ASSUME NEW partial, KilledWhileSaving(partial) PROVE UpdatesInv'
  BY <1>19 DEF KilledWhileSaving
<1>20. CASE DialogOpened
  BY <1>20 DEF DialogOpened
<1>21. ASSUME NEW c, DialogApplied(c) PROVE UpdatesInv'
  BY <1>21 DEF DialogApplied
<1>22. CASE UNCHANGED updVars
  BY <1>22 DEF updVars
<1> QED
  BY <1>1, <1>2, <1>3, <1>4, <1>5, <1>6, <1>7, <1>8, <1>9, <1>10, <1>11, <1>12,
     <1>13, <1>14, <1>15, <1>16, <1>17, <1>18, <1>19, <1>20, <1>21, <1>22
  DEF UpdatesNext

(* installPendingUpdates() starts the updater at most once for what was    *)
(* downloaded, whenever the program is killed.                             *)
THEOREM InstallsOnce == UpdatesSpec => InstalledOnce
<1>1. UpdatesInv /\ [UpdatesNext]_updVars => [UpdaterStarted => fresh]_updVars
  BY DEF UpdatesInv, FlagIsFresh, Installing, UpdaterStarted
<1> QED BY UpdatesInitInv, UpdatesStep, <1>1, PTL DEF UpdatesSpec, InstalledOnce

(* And what it is given is whole and of the configured channel.            *)
THEOREM InstallsWhole == UpdatesSpec => InstalledIsWhole
<1>1. UpdatesInv /\ [UpdatesNext]_updVars
        => [UpdaterStarted =>
              (script \subseteq packages /\ source = channel) \/ torn]_updVars
  BY DEF UpdatesInv, FlagIsFresh, RunningOnly, ScriptsFollowPackages,
     ChannelIsKept, OfChannel, Installing, UpdaterStarted
<1> QED BY UpdatesInitInv, UpdatesStep, <1>1, PTL DEF UpdatesSpec, InstalledIsWhole

-----------------------------------------------------------------------------
Processes == {"off", "starting", "running", "restarting", "installing",
              "installing at exit", "ending"}

UpdatesTypeOK ==
  /\ process \in Processes
  /\ flag \in BOOLEAN
  /\ flagOnDisk \in BOOLEAN
  /\ updateFailed \in BOOLEAN
  /\ channel \in Channels
  /\ channelBefore \in {{}} \cup {{c} : c \in Channels}
  /\ updater \in {"none", "info", "confirm", "package", "script"}
  /\ channelOnStart \in Channels
  /\ queue \subseteq Packages
  /\ current \subseteq Packages
  /\ allScripts \subseteq Packages
  /\ packages \subseteq Packages
  /\ script \subseteq Packages
  /\ source \in Channels
  /\ fresh \in BOOLEAN
  /\ torn \in BOOLEAN

(* An AutoUpdater that asks for confirmation or downloads has something to *)
(* download, one package at a time, and one that does not has nothing.     *)
HasWhatItNeeds ==
  /\ updater = "confirm" => queue # {}
  /\ updater \in {"package", "script"} => \E p \in Packages : current = {p}
  /\ updater \in {"none", "info"} => queue = {}
  /\ updater \in {"none", "info", "confirm"} => current = {}

DownloadInv == UpdatesTypeOK /\ HasWhatItNeeds

LEMMA DownloadInitInv == UpdatesInit => DownloadInv
BY DEF UpdatesInit, DownloadInv, UpdatesTypeOK, HasWhatItNeeds, Processes

LEMMA DownloadStep == DownloadInv /\ [UpdatesNext]_updVars => DownloadInv'
<1> SUFFICES ASSUME DownloadInv, [UpdatesNext]_updVars PROVE DownloadInv'
  OBVIOUS
<1> USE DEF DownloadInv, UpdatesTypeOK, HasWhatItNeeds, Processes, configVars,
            downloadVars, diskVars, NothingDownloading, Working, NextPackage
<1>1. ASSUME NEW b \in BOOLEAN, ProcessStarts(b) \/ Quit(b) PROVE DownloadInv'
  BY <1>1 DEF ProcessStarts, Quit
<1>2. ASSUME NEW b \in BOOLEAN, DialogClosed(b) PROVE DownloadInv'
  BY <1>2 DEF DialogClosed
<1>3. CASE Pending \/ NothingPending
  BY <1>3 DEF Pending, NothingPending
<1>4. CASE UpdaterStarted \/ UpdaterNotStarted
  BY <1>4 DEF UpdaterStarted, UpdaterNotStarted
<1>5. CASE ProcessEnds
  BY <1>5 DEF ProcessEnds
<1>6. CASE Killed
  <2>1. torn' \in BOOLEAN
    BY <1>6, Zenon DEF Killed
  <2> QED BY <1>6, <2>1 DEF Killed
<1>7. CASE CheckForUpdates
  BY <1>7 DEF CheckForUpdates
<1>8. ASSUME NEW kept \in SUBSET packages, NEW keptScript \in {script, {}},
             KilledWhileRemoving(kept, keptScript)
      PROVE  DownloadInv'
  BY <1>8 DEF KilledWhileRemoving
<1>9. ASSUME NEW ok \in BOOLEAN, NEW downloaded, Finish(ok, downloaded),
             process' \in Processes, updateFailed' \in BOOLEAN, torn' \in BOOLEAN,
             UNCHANGED configVars, packages' \subseteq Packages,
             script' \subseteq Packages, source' \in Channels
      PROVE  DownloadInv'
  <2>1. flag' \in BOOLEAN /\ flagOnDisk' = flag'
    BY <1>9, Zenon DEF Finish
  <2>2. fresh' \in BOOLEAN
    BY <1>9, Zenon DEF Finish
  <2> QED BY <1>9, <2>1, <2>2 DEF Finish
<1>10. CASE Fail
  BY <1>9, <1>10 DEF Fail
<1>11. CASE NothingNew
  BY <1>9, <1>11 DEF NothingNew
<1>12. CASE LastScriptDownloaded
  BY <1>9, <1>12 DEF LastScriptDownloaded
<1>13. ASSUME NEW new \in (SUBSET Packages) \ {{}}, NewPackages(new) PROVE DownloadInv'
  BY <1>13 DEF NewPackages
<1>14. ASSUME NEW p \in Packages, Confirmed(p) \/ ScriptDownloaded(p) PROVE DownloadInv'
  BY <1>14 DEF Confirmed, ScriptDownloaded
<1>15. CASE PackageDownloaded
  BY <1>15 DEF PackageDownloaded
<1>16. ASSUME NEW partial \in SUBSET (allScripts \cup current), KilledWhileSaving(partial)
       PROVE  DownloadInv'
  BY <1>16 DEF KilledWhileSaving
<1>17. CASE DialogOpened
  BY <1>17 DEF DialogOpened
<1>18. ASSUME NEW c \in Channels, DialogApplied(c) PROVE DownloadInv'
  BY <1>18 DEF DialogApplied
<1>19. CASE UNCHANGED updVars
  <2>1. /\ UNCHANGED <<process, channel, channelBefore, updater, channelOnStart, queue>>
        /\ UNCHANGED <<current, allScripts, packages, script, source>>
    BY <1>19 DEF updVars
  <2>2. UNCHANGED flag /\ UNCHANGED flagOnDisk /\ UNCHANGED updateFailed
    BY <1>19, Zenon DEF updVars
  <2>3. UNCHANGED fresh /\ UNCHANGED torn
    BY <1>19, Zenon DEF updVars
  <2>4. /\ flag' \in BOOLEAN /\ flagOnDisk' \in BOOLEAN /\ updateFailed' \in BOOLEAN
        /\ fresh' \in BOOLEAN /\ torn' \in BOOLEAN
    BY <2>2, <2>3
  <2> QED BY <2>1, <2>4
<1> QED
  BY <1>1, <1>2, <1>3, <1>4, <1>5, <1>6, <1>7, <1>8, <1>10, <1>11, <1>12, <1>13,
     <1>14, <1>15, <1>16, <1>17, <1>18, <1>19
  DEF UpdatesNext

(* Every variable keeps to its type, and whoever confirms an update finds  *)
(* a package for startNextPackageDownload() to download.                   *)
THEOREM UpdatesTypeCorrect == UpdatesSpec => [](UpdatesTypeOK /\ HasWhatItNeeds)
BY DownloadInitInv, DownloadStep, PTL DEF UpdatesSpec, DownloadInv

=============================================================================
