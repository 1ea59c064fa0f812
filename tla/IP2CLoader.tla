----------------------------- MODULE IP2CLoader -----------------------------
(***************************************************************************)
(* Loading the database that tells the country of an address: a loader     *)
(* that lives until its jobs are finished, a thread that parses the file,  *)
(* an updater that downloads a new one.  load() starts both at once.       *)
(*                                                                         *)
(* A file is only good or bad, and so is what is unpacked of a download,   *)
(* unless zlib reports an error.  The file in the user's directory is read *)
(* if there is one, the precompiled one otherwise.  Redirects of a reply   *)
(* are part of it.  Quitting, which deletes the loader too, is left out.   *)
(***************************************************************************)
EXTENDS Integers

VARIABLES
  begun,             \* the main window was opened
  alive,             \* MainWindow's ip2cLoader is not NULL
  updateInProgress,
  inFallbackMode,
  waiting,           \* QTimer::singleShot(1000, update)
  reply,             \* pCurrentNetworkReply: "none", "checksum", "database"
  thread,            \* currentParsingThread
  success,           \* its bSuccessState
  file,              \* in the user's directory: "missing", "good", "bad"
  rollbackData,      \* "none", "good", "bad"
  precompiled,       \* the precompiled database is there and good
  loaded,            \* IP2C's database has entries
  locked,            \* bDataAccessLocked
  hung,              \* the GUI thread never returns from downloadFinished()
  fallbackFailed,    \* history: "Failed to read IP2C fallback"
  unseen             \* history: a loader went while its thread was about to
                     \* start, or had failed and not yet said so

ip2cVars == <<begun, alive, updateInProgress, inFallbackMode, waiting, reply,
              thread, success, file, rollbackData, precompiled, loaded, locked, hung,
              fallbackFailed, unseen>>

lastingVars == <<begun, precompiled, hung>>

IP2CInit ==
  /\ begun = FALSE
  /\ alive = FALSE
  /\ updateInProgress = FALSE
  /\ inFallbackMode = FALSE
  /\ waiting = FALSE
  /\ reply = "none"
  /\ thread = "none"
  /\ success = FALSE
  /\ file \in {"missing", "good", "bad"}
  /\ rollbackData = "none"
  /\ precompiled \in BOOLEAN
  /\ loaded = FALSE
  /\ locked = FALSE
  /\ hung = FALSE
  /\ fallbackFailed = FALSE
  /\ unseen = FALSE

(* bIsParsing: the thread sets it when it runs and clears it before its    *)
(* finished() is delivered.  A "torn" file was written while it was read.  *)
isParsing == thread \in {"reading", "torn"}

-----------------------------------------------------------------------------
(* update(), in a loader that has no reply: its effect on these variables. *)
update ==
  /\ updateInProgress' = TRUE
  /\ waiting' = isParsing
  /\ reply' = IF isParsing THEN "none" ELSE "database"
  /\ locked' = (locked \/ ~isParsing)

(* readDatabaseThreaded(), when the file was written or not: while there   *)
(* is a thread it does nothing.                                            *)
readDatabaseThreaded(written) ==
  thread' = IF thread = "none" THEN "started"
            ELSE IF isParsing /\ written THEN "torn"
            ELSE thread

(* ip2cJobsFinished(), called with the thread "th" and the update "busy"   *)
(* still there or not, and no reply.  The main window deletes the loader;  *)
(* the thread's result goes with it.                                       *)
Destroyed(th) ==
  /\ alive' = FALSE
  /\ locked' = FALSE
  /\ inFallbackMode' = FALSE
  /\ rollbackData' = "none"
  /\ thread' = "none"
  /\ unseen' = (unseen \/ th = "started" \/ (th = "read" /\ ~success))

KeepsWorking(th) ==
  /\ thread' = th
  /\ UNCHANGED <<alive, locked, inFallbackMode, rollbackData, unseen>>

(* Mutant: it is enough that nothing is downloaded.                        *)
ip2cJobsFinishedRashly(th, working, busy) ==
  IF ~working /\ ~busy
  THEN Destroyed(th)
  ELSE KeepsWorking(th)

ip2cJobsFinished(th, working, busy) ==
  IF ~working /\ th \notin {"reading", "torn"} /\ ~busy
  THEN Destroyed(th)
  ELSE KeepsWorking(th)

-----------------------------------------------------------------------------
(* MainWindow's constructor: load(), with automatic updates or without.    *)
(* The check for a new database ends at once if there is no file.          *)
Load(bIP2CountryAutoUpdate) ==
  /\ ~begun
  /\ begun' = TRUE
  /\ alive' = TRUE
  /\ updateInProgress' = (bIP2CountryAutoUpdate /\ file = "missing")
  /\ reply' = IF ~bIP2CountryAutoUpdate THEN "none"
              ELSE IF file = "missing" THEN "database" ELSE "checksum"
  /\ locked' = TRUE
  /\ thread' = "started"
  /\ UNCHANGED <<inFallbackMode, waiting, success, file, rollbackData,
                 precompiled, loaded, hung, fallbackFailed, unseen>>

(* ip2cStartUpdate(), from the menu: a new loader, for an update only.     *)
StartUpdate ==
  /\ begun
  /\ ~alive
  /\ alive' = TRUE
  /\ update
  /\ UNCHANGED <<lastingVars, inFallbackMode, thread, success, file,
                 rollbackData, loaded, fallbackFailed, unseen>>

UpdateTimer ==
  /\ waiting
  /\ update
  /\ UNCHANGED <<lastingVars, alive, inFallbackMode, thread, success, file,
                 rollbackData, loaded, fallbackFailed, unseen>>

(* checksumDownloadFinished(), onUpdateNeeded()                            *)
UpdateNeeded ==
  /\ reply = "checksum"
  /\ update
  /\ UNCHANGED <<lastingVars, alive, inFallbackMode, thread, success, file,
                 rollbackData, loaded, fallbackFailed, unseen>>

UpToDateOrError ==
  /\ reply = "checksum"
  /\ reply' = "none"
  /\ ip2cJobsFinished(thread, FALSE, updateInProgress)
  /\ UNCHANGED <<lastingVars, updateInProgress, waiting, success, file,
                 loaded, fallbackFailed>>

(* downloadFinished(), ip2cFinishUpdate() with nothing.  Mutant: the       *)
(* update counts as in progress still.                                     *)
DownloadFailedInProgress ==
  /\ reply = "database"
  /\ reply' = "none"
  /\ ip2cJobsFinished(thread, FALSE, TRUE)
  /\ UNCHANGED <<lastingVars, updateInProgress, waiting, success, file,
                 loaded, fallbackFailed>>

DownloadFailed ==
  /\ reply = "database"
  /\ reply' = "none"
  /\ updateInProgress' = FALSE
  /\ ip2cJobsFinished(thread, FALSE, FALSE)
  /\ UNCHANGED <<lastingVars, waiting, success, file, loaded, fallbackFailed>>

(* downloadFinished() with a corrupt stream: gzread() returns -1, now and  *)
(* ever after, and the loop waits for a 0 or until it has appended to the  *)
(* data all the memory there is.  Nothing else of the GUI thread runs      *)
(* again; the parser's thread does.                                        *)
DownloadCorrupt ==
  /\ reply = "database"
  /\ reply' = "none"
  /\ hung' = TRUE
  /\ UNCHANGED <<begun, precompiled, alive, updateInProgress, inFallbackMode,
                 waiting, thread, success, file, rollbackData, loaded, locked,
                 fallbackFailed, unseen>>

(* ip2cFinishUpdate() with what was unpacked, which may be cut short or of *)
(* another kind and may be impossible to save.                             *)
Downloaded(data, saved) ==
  /\ reply = "database"
  /\ reply' = "none"
  /\ updateInProgress' = FALSE
  /\ rollbackData' = IF file = "missing" THEN "none" ELSE file
  /\ file' = IF saved THEN data ELSE file
  /\ inFallbackMode' = FALSE
  /\ locked' = TRUE
  /\ readDatabaseThreaded(saved)
  /\ UNCHANGED <<lastingVars, alive, waiting, success, loaded, fallbackFailed,
                 unseen>>

-----------------------------------------------------------------------------
ThreadBegins ==
  /\ thread = "started"
  /\ thread' = "reading"
  /\ UNCHANGED <<lastingVars, alive, updateInProgress, inFallbackMode, waiting,
                 reply, success, file, rollbackData, loaded, locked,
                 fallbackFailed, unseen>>

(* doReadDatabase(); the database is replaced only by a good one.          *)
ThreadReads ==
  /\ isParsing
  /\ thread' = "read"
  /\ success' \in
       CASE thread = "torn"    -> BOOLEAN
         [] file = "missing"   -> {precompiled}
         [] OTHER              -> {file = "good"}
  /\ loaded' = (loaded \/ success')
  /\ UNCHANGED <<lastingVars, alive, updateInProgress, inFallbackMode, waiting,
                 reply, file, rollbackData, locked, fallbackFailed, unseen>>

(* parsingThreadFinished(), ip2cFinishedParsing(): once the jobs are done, *)
(* or the fallback failed as well,                                         *)
ParsingFinished ==
  /\ ~hung
  /\ thread = "read"
  /\ success \/ inFallbackMode
  /\ fallbackFailed' = (fallbackFailed \/ ~success)
  /\ ip2cJobsFinished("none", reply # "none", updateInProgress)
  /\ UNCHANGED <<lastingVars, updateInProgress, waiting, reply, success, file,
                 loaded>>

(* Mutant: the fallback, too, is tried again.                              *)
ParsingFailedAgain(written) ==
  /\ ~hung
  /\ thread = "read"
  /\ ~success
  /\ file' = IF ~written THEN file
             ELSE IF rollbackData = "none" THEN "missing"
             ELSE rollbackData
  /\ rollbackData' = "none"
  /\ thread' = "started"
  /\ UNCHANGED <<lastingVars, alive, updateInProgress, inFallbackMode, waiting,
                 reply, success, loaded, locked, fallbackFailed, unseen>>

(* or the fallback is read: the file from before the update, if there was  *)
(* one, and otherwise, the file being removed, the precompiled one.        *)
ParsingFailed(written) ==
  /\ ~hung
  /\ thread = "read"
  /\ ~success
  /\ ~inFallbackMode
  /\ inFallbackMode' = TRUE
  /\ file' = IF ~written THEN file
             ELSE IF rollbackData = "none" THEN "missing"
             ELSE rollbackData
  /\ rollbackData' = "none"
  /\ thread' = "started"
  /\ UNCHANGED <<lastingVars, alive, updateInProgress, waiting, reply, success,
                 loaded, locked, fallbackFailed, unseen>>

Answered ==
  \/ UpdateNeeded
  \/ UpToDateOrError
  \/ DownloadFailed
  \/ DownloadCorrupt
  \/ \E data \in {"good", "bad"}, saved \in BOOLEAN : Downloaded(data, saved)

ThreadSteps ==
  \/ ThreadBegins
  \/ ThreadReads
  \/ ParsingFinished
  \/ \E written \in BOOLEAN : ParsingFailed(written)

IP2CNext ==
  \/ \E bIP2CountryAutoUpdate \in BOOLEAN : Load(bIP2CountryAutoUpdate)
  \/ StartUpdate
  \/ UpdateTimer
  \/ Answered
  \/ ThreadSteps

(* The thread runs and is heard of, the timer fires.  Replies end: this    *)
(* is the network's doing, the updater has no timeout of its own.          *)
IP2CFairness ==
  /\ WF_ip2cVars(ThreadSteps)
  /\ WF_ip2cVars(UpdateTimer)
  /\ WF_ip2cVars(Answered)

IP2CSpec == IP2CInit /\ [][IP2CNext]_ip2cVars /\ IP2CFairness

-----------------------------------------------------------------------------
(* When a loader is gone the country flags are shown again, and there are  *)
(* entries to show them from unless a fallback was read and failed.  The   *)
(* download, the parser and the fallback end in any order, each asking     *)
(* whether it was the last, in ip2cJobsFinished().  The exception is the   *)
(* code's: bIsParsing is not yet set, or not any more, while the thread's  *)
(* result is still to come.                                                *)
CountriesKnown ==
  begun /\ ~alive =>
    /\ ~locked
    /\ loaded \/ fallbackFailed \/ unseen

(* No loader stays for ever, which would forbid another update, but for a  *)
(* download that makes the whole program hang (ip2cupdater.cpp:139).       *)
LoaderEnds == alive ~> ~alive \/ hung

(* Why it goes: every job that ends, and every step of one, leaves less to *)
(* do.  A download brings the parser another file, and a file that cannot  *)
(* be read one fallback, not two: 9 is more than both together.            *)
ToRead ==
  CASE thread = "none"    -> 0
    [] thread = "started" -> 4
    [] thread = "read"    -> 2
    [] OTHER              -> 3

ToDownload ==
  CASE reply = "none"     -> IF waiting THEN 2 ELSE 0
    [] reply = "checksum" -> 3
    [] reply = "database" -> 1

JobsLeft == 9 * ToDownload + (IF inFallbackMode THEN 0 ELSE 3) + ToRead

JobsRunOut == [][alive /\ alive' => JobsLeft' < JobsLeft]_ip2cVars

(* What the words of the properties rest on, for every order of the jobs.  *)
IP2CTypeOK ==
  /\ {begun, alive, updateInProgress, inFallbackMode, waiting, success, precompiled,
      loaded, locked, hung, fallbackFailed, unseen} \subseteq BOOLEAN
  /\ reply \in {"none", "checksum", "database"}
  /\ thread \in {"none", "started", "reading", "torn", "read"}
  /\ file \in {"missing", "good", "bad"}
  /\ rollbackData \in {"none", "good", "bad"}

(* An update in progress is one that waits, downloads or hangs.            *)
UpdateIsPending ==
  /\ waiting => reply = "none"
  /\ waiting \/ reply = "database" => updateInProgress
  /\ updateInProgress => waiting \/ reply = "database" \/ hung
  /\ hung => alive /\ updateInProgress /\ ~waiting /\ reply = "none"

(* What a deleted loader leaves.                                           *)
GoneIsOver ==
  /\ ~begun => ~alive
  /\ ~alive => thread = "none" /\ reply = "none" /\ ~updateInProgress /\ ~locked

(* What has been read is there; once no thread is left, there is something *)
(* to show, or a reason why not.                                           *)
ReadIsKnown ==
  /\ thread = "read" /\ success => loaded
  /\ begun /\ thread = "none" => loaded \/ fallbackFailed \/ unseen

(* A loader that is there has something to wait for, for the last of its   *)
(* jobs to end deletes it, or hangs.                                       *)
LoaderWorks == alive => thread # "none" \/ reply # "none" \/ waiting \/ hung

LoaderInv ==
  /\ IP2CTypeOK
  /\ UpdateIsPending
  /\ GoneIsOver
  /\ ReadIsKnown
  /\ LoaderWorks

=============================================================================
