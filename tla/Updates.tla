------------------------------ MODULE Updates -------------------------------
(***************************************************************************)
(* Program updates: what an AutoUpdater downloads is installed by another  *)
(* program, the updater, which Doomseeker starts when it is started the    *)
(* next time or quits to restart.  In between there are files, a flag in   *)
(* the configuration, and whatever the user does; the process may be       *)
(* killed at any time.                                                     *)
(*                                                                         *)
(* One process runs at a time.  A script is the set of packages it         *)
(* installs.  The revisions the user does not want change nothing here.    *)
(***************************************************************************)
EXTENDS FiniteSets

CONSTANTS
  Packages,
  Channels     \* update channels

VARIABLES
  process,         \* how far main() has come
  flag,            \* bPerformUpdateOnNextRun, in memory
  flagOnDisk,      \* and in the file
  updateFailed,    \* updateFailedCode # 0
  channel,         \* updateChannelName
  channelBefore,   \* a stack of it, while the configuration dialog is open
  updater,         \* what the AutoUpdater is doing, "none" if it is NULL
  channelOnStart,  \* updateChannelOnUpdateStart
  queue,           \* packagesInDownloadQueue
  current,         \* currentlyDownloadedPackage, as a set
  allScripts,
  packages,        \* on disk, whole
  script,          \* on disk; {} if there is none
  source,          \* history: the channel they are from
  fresh,           \* history: they were completed, and no updater started since
  torn             \* history: the process was killed while it removed them,
                   \* wrote the script, or had a new configuration half applied

diskVars == <<packages, script, source>>
downloadVars == <<updater, channelOnStart, queue, current, allScripts>>
configVars == <<channel, channelBefore>>
updVars == <<process, flag, flagOnDisk, updateFailed, configVars, downloadVars,
             diskVars, fresh, torn>>

UpdatesInit ==
  /\ process = "off"
  /\ flag = FALSE
  /\ flagOnDisk = FALSE
  /\ updateFailed = FALSE
  /\ channel \in Channels
  /\ channelBefore = {}
  /\ updater = "none"
  /\ channelOnStart = channel
  /\ queue = {}
  /\ current = {}
  /\ allScripts = {}
  /\ packages = {}
  /\ script = {}
  /\ source = channel
  /\ fresh = FALSE
  /\ torn = FALSE

NothingDownloading ==
  /\ updater' = "none"
  /\ queue' = {}
  /\ current' = {}
  /\ allScripts' = {}
  /\ UNCHANGED channelOnStart

-----------------------------------------------------------------------------
(* Main::run(), up to where the configuration is read; "--update-failed"   *)
(* may be given.                                                           *)
ProcessStarts(failed) ==
  /\ process = "off"
  /\ process' = "starting"
  /\ flag' = flagOnDisk
  /\ updateFailed' = failed
  /\ UNCHANGED <<flagOnDisk, configVars, downloadVars, diskVars, fresh, torn>>

(* installPendingUpdates(), when the program starts ("starting") or was    *)
(* told to quit and restart ("restarting").  Mutant: saving is left to the *)
(* program's end.                                                          *)
PendingUnsaved ==
  /\ process \in {"starting", "restarting"}
  /\ flag
  /\ flag' = FALSE
  /\ process' = IF updateFailed THEN "running"
                ELSE IF process = "starting" THEN "installing"
                ELSE "installing at exit"
  /\ UNCHANGED <<flagOnDisk, updateFailed, configVars, downloadVars, diskVars,
                 fresh, torn>>

Pending ==
  /\ process \in {"starting", "restarting"}
  /\ flag
  /\ flag' = FALSE
  /\ flagOnDisk' = FALSE
  /\ process' = IF updateFailed THEN "running"
                ELSE IF process = "starting" THEN "installing"
                ELSE "installing at exit"
  /\ UNCHANGED <<updateFailed, configVars, downloadVars, diskVars, fresh, torn>>

NothingPending ==
  /\ process \in {"starting", "restarting"}
  /\ ~flag
  /\ process' = IF process = "starting" THEN "running" ELSE "ending"
  /\ UNCHANGED <<flag, flagOnDisk, updateFailed, configVars, downloadVars,
                 diskVars, fresh, torn>>

(* startInstallation(): if there is a script, a copy of the updater is     *)
(* started, and the program ends.                                          *)
UpdaterStarted ==
  /\ process \in {"installing", "installing at exit"}
  /\ script # {}
  /\ process' = "ending"
  /\ fresh' = FALSE
  /\ UNCHANGED <<flag, flagOnDisk, updateFailed, configVars, downloadVars,
                 diskVars, torn>>

(* Or there is none, or the updater cannot be copied or started.           *)
UpdaterNotStarted ==
  /\ process \in {"installing", "installing at exit"}
  /\ process' = IF process = "installing" THEN "running" ELSE "ending"
  /\ UNCHANGED <<flag, flagOnDisk, updateFailed, configVars, downloadVars,
                 diskVars, fresh, torn>>

(* quitProgram(), for good or by restartAndInstallUpdatesNow(), which is   *)
(* offered when an update is ready.  The AutoUpdater goes with the window. *)
Quit(restart) ==
  /\ process = "running"
  /\ channelBefore = {}
  /\ restart => flag
  /\ process' = IF restart THEN "restarting" ELSE "ending"
  /\ updateFailed' = FALSE
  /\ NothingDownloading
  /\ UNCHANGED <<flag, flagOnDisk, configVars, diskVars, fresh, torn>>

(* ~Main()                                                                 *)
ProcessEnds ==
  /\ process = "ending"
  /\ process' = "off"
  /\ flagOnDisk' = flag
  /\ UNCHANGED <<flag, updateFailed, configVars, downloadVars, diskVars, fresh,
                 torn>>

Killed ==
  /\ process # "off"
  /\ process' = "off"
  /\ torn' = (torn \/ channelBefore # {})
  /\ channelBefore' = {}
  /\ NothingDownloading
  /\ UNCHANGED <<flag, flagOnDisk, updateFailed, channel, diskVars, fresh>>

-----------------------------------------------------------------------------
(* onAutoUpdaterFinish(), for the outcome "ok" and the downloaded files.   *)
Finish(ok, downloaded) ==
  /\ flag' = (ok /\ channel = channelOnStart /\ downloaded # {})
  /\ flagOnDisk' = flag'
  /\ fresh' = (fresh \/ flag')
  /\ NothingDownloading

Working ==
  /\ process = "running"
  /\ UNCHANGED <<process, updateFailed, configVars, torn>>

(* checkForUpdates(), when no dialog is open: the files of an earlier      *)
(* update are removed, script and all.  Mutant: not the script.            *)
CheckForUpdatesPackagesOnly ==
  /\ Working
  /\ updater = "none"
  /\ channelBefore = {}
  /\ updater' = "info"
  /\ channelOnStart' = channel
  /\ packages' = {}
  /\ UNCHANGED <<flag, flagOnDisk, queue, current, allScripts, script, source,
                 fresh>>

CheckForUpdates ==
  /\ Working
  /\ updater = "none"
  /\ channelBefore = {}
  /\ updater' = "info"
  /\ channelOnStart' = channel
  /\ packages' = {}
  /\ script' = {}
  /\ UNCHANGED <<flag, flagOnDisk, queue, current, allScripts, source, fresh>>

(* The process is killed while they are removed one by one.                *)
KilledWhileRemoving(kept, keptScript) ==
  /\ process = "running"
  /\ updater = "none"
  /\ channelBefore = {}
  /\ process' = "off"
  /\ packages' = kept
  /\ script' = keptScript
  /\ torn' = TRUE
  /\ NothingDownloading
  /\ UNCHANGED <<flag, flagOnDisk, updateFailed, configVars, source, fresh>>

(* Any handler's error, an AutoUpdater that cannot start, the abort button *)
(* and "discard".                                                          *)
Fail ==
  /\ Working
  /\ updater # "none"
  /\ Finish(FALSE, {})
  /\ UNCHANGED diskVars

(* onUpdaterInfoDownloadFinish(): what is new may have to be confirmed.    *)
NothingNew ==
  /\ Working
  /\ updater = "info"
  /\ Finish(TRUE, {})
  /\ UNCHANGED diskVars

NewPackages(new) ==
  /\ Working
  /\ updater = "info"
  /\ updater' = "confirm"
  /\ queue' = new
  /\ UNCHANGED <<flag, flagOnDisk, channelOnStart, current, allScripts,
                 diskVars, fresh>>

(* startNextPackageDownload()                                              *)
NextPackage(p) ==
  /\ p \in queue
  /\ updater' = "package"
  /\ queue' = queue \ {p}
  /\ current' = {p}

(* confirmDownloadAndInstall(), by the user or, if no confirmation is      *)
(* required, at once.                                                      *)
Confirmed(p) ==
  /\ Working
  /\ updater = "confirm"
  /\ NextPackage(p)
  /\ UNCHANGED <<flag, flagOnDisk, channelOnStart, allScripts, diskVars, fresh>>

PackageDownloaded ==
  /\ Working
  /\ updater = "package"
  /\ updater' = "script"
  /\ packages' = packages \cup current
  /\ UNCHANGED <<flag, flagOnDisk, channelOnStart, queue, current, allScripts,
                 script, source, fresh>>

(* onPackageScriptDownloadFinish()                                         *)
ScriptDownloaded(p) ==
  /\ Working
  /\ updater = "script"
  /\ allScripts' = allScripts \cup current
  /\ NextPackage(p)
  /\ UNCHANGED <<flag, flagOnDisk, channelOnStart, diskVars, fresh>>

LastScriptDownloaded ==
  /\ Working
  /\ updater = "script"
  /\ queue = {}
  /\ script' = allScripts \cup current
  /\ source' = channelOnStart
  /\ Finish(TRUE, packages)
  /\ UNCHANGED packages

(* The process is killed in saveUpdaterScript().                           *)
KilledWhileSaving(partial) ==
  /\ process = "running"
  /\ updater = "script"
  /\ queue = {}
  /\ process' = "off"
  /\ script' = partial
  /\ source' = channelOnStart
  /\ torn' = TRUE
  /\ channelBefore' = {}
  /\ NothingDownloading
  /\ UNCHANGED <<flag, flagOnDisk, updateFailed, channel, packages, fresh>>

-----------------------------------------------------------------------------
(* DoomseekerConfigurationDialog::openConfiguration(), during which the    *)
(* AutoUpdater goes on.                                                    *)
DialogOpened ==
  /\ process = "running"
  /\ channelBefore = {}
  /\ channelBefore' = {channel}
  /\ UNCHANGED <<process, flag, flagOnDisk, updateFailed, channel,
                 downloadVars, diskVars, fresh, torn>>

(* Applied, which saves all of the configuration.                          *)
DialogApplied(c) ==
  /\ channelBefore # {}
  /\ channel' = c
  /\ flagOnDisk' = flag
  /\ UNCHANGED <<process, flag, updateFailed, channelBefore, downloadVars,
                 diskVars, fresh, torn>>

(* With another channel or update mode the current update is discarded.    *)
DialogClosed(modeChanged) ==
  /\ channelBefore # {}
  /\ channelBefore' = {}
  /\ IF modeChanged \/ channelBefore # {channel}
     THEN /\ flag' = FALSE
          /\ flagOnDisk' = FALSE
          /\ NothingDownloading
     ELSE UNCHANGED <<flag, flagOnDisk, downloadVars>>
  /\ UNCHANGED <<process, updateFailed, channel, diskVars, fresh, torn>>

UpdatesNext ==
  \/ \E b \in BOOLEAN : ProcessStarts(b) \/ Quit(b) \/ DialogClosed(b)
  \/ Pending
  \/ NothingPending
  \/ UpdaterStarted
  \/ UpdaterNotStarted
  \/ ProcessEnds
  \/ Killed
  \/ CheckForUpdates
  \/ \E kept \in SUBSET packages, keptScript \in {script, {}} :
       KilledWhileRemoving(kept, keptScript)
  \/ Fail
  \/ NothingNew
  \/ \E new \in (SUBSET Packages) \ {{}} : NewPackages(new)
  \/ \E p \in Packages : Confirmed(p) \/ ScriptDownloaded(p)
  \/ PackageDownloaded
  \/ LastScriptDownloaded
  \/ \E partial \in SUBSET (allScripts \cup current) : KilledWhileSaving(partial)
  \/ DialogOpened
  \/ \E c \in Channels : DialogApplied(c)

UpdatesSpec == UpdatesInit /\ [][UpdatesNext]_updVars

-----------------------------------------------------------------------------
(* An update is installed at most once: the updater is started only for    *)
(* files that were completed after it was started the last time, even if   *)
(* the program is killed right after.  An update that fails would be tried *)
(* at every start otherwise.  installPendingUpdates() clears the flag and  *)
(* saves it before it starts anything.                                     *)
InstalledOnce == [][UpdaterStarted => fresh]_updVars

(* What the updater is given is whole, every package of its script is      *)
(* there, and is of the channel that is configured, whatever was checked   *)
(* for, discarded, aborted or configured since the flag was set; unless    *)
(* the process was killed in one of the few moments that "torn" names.     *)
InstalledIsWhole ==
  [][UpdaterStarted => (script \subseteq packages /\ source = channel) \/ torn]_updVars

=============================================================================
