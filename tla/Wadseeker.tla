----------------------------- MODULE Wadseeker ------------------------------
(***************************************************************************)
(* The Wadseeker library at work: Wadseeker starts the search of sites     *)
(* (WWWSeeker), of the idgames archive (one Idgames client per file, one   *)
(* at a time) and of Wad Archive (WadArchiveClient), hands the links they  *)
(* find to WadRetriever, and announces allDone() when none of them works.  *)
(*                                                                         *)
(* Everything runs in one thread.  What WWWSeeker finds and that it, or    *)
(* the retriever, has finished comes by queued connections: "posted" holds *)
(* those calls.  They outlive the objects that made them, and the seek.    *)
(***************************************************************************)
EXTENDS WadRetriever, WWWSeeker

CONSTANTS
  NoFile,
  MaxLinks,   \* bound: links on one page
  MaxMirrors, \* bound: links on one page of the idgames archive
  MaxStale    \* bound: calls of ended seeks still posted when one starts

ASSUME SeekAssumption ==
  /\ NoFile \notin Files
  /\ MaxLinks \in Nat
  /\ MaxMirrors \in Nat
  /\ MaxStale \in Nat

VARIABLES
  seeking,         \* seekParametersForCurrentSeek is not NULL
  bIsAborting,
  idgamesClients,  \* files whose Idgames client is not done with
  idgamesFile,     \* the one at work
  idgamesPage,     \* it fetches the file's page, not the API's answer
  archiveQueue,    \* WadArchiveClient's queue
  archiveFile,     \* and the file it asks for
  posted,          \* queued calls, first in first out
  asked,           \* history: the files of the latest seek,
  installed,       \* those of them that were installed,
  told             \* and what allDone() said

serviceVars == <<idgamesClients, idgamesFile, idgamesPage, archiveQueue,
                 archiveFile>>
seekVars == <<seeking, bIsAborting, told>>
historyVars == <<asked, installed>>
vars == <<retrieverVars, wwwVars, serviceVars, seekVars, posted, historyVars>>

Calls ==
  {<<"wwwFinished">>, <<"finished">>, <<"pendingUrls">>}
    \cup ({"linkFound"} \X Files \X Urls)

LinkSeqs(files) ==
  UNION {[1..n -> {<<"linkFound", f, u>> : f \in files, u \in Urls}]
           : n \in 0..MaxLinks}

ServicesWork ==
  idgamesClients # {} \/ archiveQueue # {} \/ archiveFile # NoFile

(* isWorking() of a seek.                                                  *)
Works == wwwWorking \/ isAnyDownloadWorking \/ ServicesWork

-----------------------------------------------------------------------------
(* The end of a seek                                                       *)

(* Mutant: wads that were not found do not matter.                         *)
CleanUpUnlessAborted ==
  IF seeking /\ ~Works'
  THEN /\ seeking' = FALSE
       /\ bIsAborting' = FALSE
       /\ told' = IF bIsAborting THEN "failure" ELSE "success"
  ELSE UNCHANGED seekVars

(* cleanUpIfAllFinished(), as the last thing a handler does.               *)
CleanUpIfAllFinished ==
  IF seeking /\ ~Works'
  THEN /\ seeking' = FALSE
       /\ bIsAborting' = FALSE
       /\ told' = IF isAnyWadPendingUrl' \/ bIsAborting
                  THEN "failure" ELSE "success"
  ELSE UNCHANGED seekVars

StopServices ==
  /\ idgamesClients' = {}
  /\ idgamesFile' = NoFile
  /\ idgamesPage' = FALSE
  /\ archiveQueue' = {}
  /\ archiveFile' = NoFile

(* The object is gone, or the process with it at a null pointer; the next  *)
(* one starts anew.                                                        *)
Dies ==
  /\ setWads({})
  /\ wwwWorking' = FALSE
  /\ seekedFiles' = {}
  /\ sitesUrls' = {}
  /\ visitedUrls' = {}
  /\ networkQueries' = {}
  /\ StopServices
  /\ seeking' = FALSE
  /\ bIsAborting' = FALSE
  /\ told' = "none"
  /\ posted' = <<>>
  /\ asked' = {}
  /\ installed' = {}

Init ==
  /\ wads = {}
  /\ urls = [f \in Files |-> {}]
  /\ had = [f \in Files |-> {}]
  /\ mirrors = [f \in Files |-> {}]
  /\ used = {}
  /\ reply = [f \in Files |-> NoUrl]
  /\ timers = 0
  /\ silent = FALSE
  /\ wwwWorking = FALSE
  /\ seekedFiles = {}
  /\ sitesUrls = {}
  /\ visitedUrls = {}
  /\ networkQueries = {}
  /\ idgamesClients = {}
  /\ idgamesFile = NoFile
  /\ idgamesPage = FALSE
  /\ archiveQueue = {}
  /\ archiveFile = NoFile
  /\ seeking = FALSE
  /\ bIsAborting = FALSE
  /\ told = "none"
  /\ posted = <<>>
  /\ asked = {}
  /\ installed = {}

-----------------------------------------------------------------------------
(* The user                                                                *)

Post(calls) == posted' = posted \o calls

(* Mutant: WWWSeeker stops without a word.                                 *)
WwwFinishedNever(stopped) == <<>>

(* What WWWSeeker emits when it has stopped.                               *)
WwwFinished(stopped) == IF stopped THEN <<<<"wwwFinished">>>> ELSE <<>>

(* startSeek(): the sites, some of which may be direct links, then the     *)
(* services that are enabled.  The files' names hold no "/"; an idgames    *)
(* service with an invalid URL is gone when startSeek() returns.           *)
StartSeek(files, sites, direct, idgames, archive) ==
  /\ ~seeking
  /\ Len(posted) <= MaxStale
  /\ files # {}
  /\ seeking' = TRUE
  /\ bIsAborting' = FALSE
  /\ told' = "none"
  /\ asked' = files
  /\ installed' = {}
  /\ setWads(files)
  /\ startSearch(files, sites, direct)
  /\ \E links \in LinkSeqs(files) :
       /\ Len(links) = Cardinality(direct)
       /\ Post(links \o WwwFinished(~wwwWorking'))
  /\ idgamesClients' = IF idgames THEN files ELSE {}
  /\ idgamesFile' \in IF idgames THEN files ELSE {NoFile}
  /\ idgamesPage' = FALSE
  /\ archiveFile' \in IF archive THEN files ELSE {NoFile}
  /\ archiveQueue' = IF archive THEN files \ {archiveFile'} ELSE {}

(* startSeek() without sites or Wad Archive and with an invalid idgames    *)
(* URL: startIdgames() ends the seek, whose parameters are read next.      *)
StartSeekOfNothing ==
  /\ ~seeking
  /\ Dies

(* ~Wadseeker()                                                            *)
Destroyed ==
  /\ seeking
  /\ Dies

(* abort(): when only the services work, their end is that of the seek,    *)
(* and nothing is left to be aborted.                                      *)
Abort ==
  /\ seeking
  /\ Works
  /\ ~bIsAborting
  /\ StopServices
  /\ IF wwwWorking \/ isAnyDownloadWorking
     THEN /\ bIsAborting' = TRUE
          /\ abortSites
          /\ abortDownloads
          /\ Post(WwwFinished(TRUE))
          /\ UNCHANGED <<seeking, told>>
     ELSE /\ seeking' = FALSE
          /\ bIsAborting' = FALSE
          /\ told' = "failure"
          /\ UNCHANGED <<retrieverVars, wwwVars, posted>>
  /\ UNCHANGED historyVars

(* skipService(), of a service that works.                                 *)
SkipIdgames ==
  /\ idgamesClients # {}
  /\ idgamesClients' = {}
  /\ idgamesFile' = NoFile
  /\ idgamesPage' = FALSE
  /\ UNCHANGED <<archiveQueue, archiveFile, retrieverVars, wwwVars, posted>>
  /\ CleanUpIfAllFinished
  /\ UNCHANGED historyVars

SkipWadArchive ==
  /\ archiveFile # NoFile
  /\ archiveQueue' = {}
  /\ archiveFile' = NoFile
  /\ UNCHANGED <<idgamesClients, idgamesFile, idgamesPage>>
  /\ UNCHANGED <<retrieverVars, wwwVars, posted>>
  /\ CleanUpIfAllFinished
  /\ UNCHANGED historyVars

-----------------------------------------------------------------------------
(* The network                                                             *)

(* networkQueryFinished() of WWWSeeker.                                    *)
PageFinished(s, more, direct) ==
  /\ pageFinished(s, more, direct)
  /\ \E links \in LinkSeqs(seekedFiles) :
       /\ Len(links) >= Cardinality(direct)
       /\ Post(links \o WwwFinished(~wwwWorking'))
  /\ UNCHANGED <<retrieverVars, serviceVars, seekVars, historyVars>>

(* idgamesClientFinished() of the client at work: the next one starts.     *)
NextIdgamesClient ==
  /\ idgamesClients' = idgamesClients \ {idgamesFile}
  /\ idgamesFile' \in IF idgamesClients' = {} THEN {NoFile} ELSE idgamesClients'
  /\ idgamesPage' = FALSE

(* onIdgamesApiQueryFinished(): found, or not, or an error.                *)
IdgamesApiAnswers ==
  /\ idgamesFile # NoFile
  /\ ~idgamesPage
  /\ \/ idgamesPage' = TRUE /\ UNCHANGED <<idgamesClients, idgamesFile>>
     \/ NextIdgamesClient
  /\ UNCHANGED <<archiveQueue, archiveFile, retrieverVars, wwwVars, posted>>
  /\ CleanUpIfAllFinished
  /\ UNCHANGED historyVars

(* networkRequestFinished() of Idgames: the links are mirrors.             *)
IdgamesPageFinished(found) ==
  /\ idgamesFile # NoFile
  /\ idgamesPage
  /\ IF found = {}
     THEN UNCHANGED <<retrieverVars, posted>>
     ELSE /\ addMirrorUrls(idgamesFile, found)
          /\ Post(IF idgamesFile \in wads /\ ~(found \subseteq used)
                  THEN Announced(
                    wads,
                    [urls EXCEPT ![idgamesFile] =
                       @ \cup (found \ (used \cup had[idgamesFile]))],
                    reply)
                  ELSE <<>>)
  /\ NextIdgamesClient
  /\ UNCHANGED <<archiveQueue, archiveFile, wwwVars>>
  /\ CleanUpIfAllFinished
  /\ UNCHANGED historyVars

(* Mutant: the end of the queue is not checked for the end of the seek.    *)
ArchiveAnswersUnchecked ==
  /\ archiveFile # NoFile
  /\ \/ UNCHANGED retrieverVars
     \/ \E u \in Urls : addUrl(archiveFile, u)
  /\ archiveFile' \in IF archiveQueue = {} THEN {NoFile} ELSE archiveQueue
  /\ archiveQueue' = archiveQueue \ {archiveFile'}
  /\ UNCHANGED <<idgamesClients, idgamesFile, idgamesPage, wwwVars, posted>>
  /\ UNCHANGED <<seekVars, historyVars>>

(* onQueryFinished() of WadArchiveClient: a link, directly, or none; then  *)
(* the next file of the queue.                                             *)
ArchiveAnswers ==
  /\ archiveFile # NoFile
  /\ \/ UNCHANGED retrieverVars
     \/ \E u \in Urls : addUrl(archiveFile, u)
  /\ archiveFile' \in IF archiveQueue = {} THEN {NoFile} ELSE archiveQueue
  /\ archiveQueue' = archiveQueue \ {archiveFile'}
  /\ UNCHANGED <<idgamesClients, idgamesFile, idgamesPage, wwwVars, posted>>
  /\ CleanUpIfAllFinished
  /\ UNCHANGED historyVars

DownloadRedirected(f, u) ==
  /\ seeking
  /\ downloadRedirected(f, u)
  /\ UNCHANGED <<wwwVars, serviceVars, seekVars, posted, historyVars>>

DownloadFailed(f) ==
  /\ seeking
  /\ downloadFailed(f)
  /\ Post(Announced(wads, urls, [reply EXCEPT ![f] = NoUrl]))
  /\ UNCHANGED <<wwwVars, serviceVars, seekVars, historyVars>>

(* wadRetrieverWadInstalled() comes for each file before the retriever     *)
(* goes on.                                                                *)
DownloadInstalls(f, files) ==
  /\ seeking
  /\ downloadInstalls(f, files)
  /\ removeSeekedFiles(files)
  /\ Post(WwwFinished(StopsWith(files)) \o
          Announced(
            wads \ files,
            Forget(WithoutMirrors(f), files, {}),
            Forget([reply EXCEPT ![f] = NoUrl], files, NoUrl)))
  /\ installed' = installed \cup files
  /\ UNCHANGED <<asked, serviceVars, seekVars>>

(* The message of a critical error calls abort(), which acts only if some- *)
(* thing works.                                                            *)
InstallFailsCritically(f, files) ==
  LET wwwGoesOn == wwwWorking /\ ~StopsWith(files)
      downloads == WorksAfter(f, files)
      acts == wwwGoesOn \/ downloads \/ ServicesWork
      ends == acts /\ ~wwwGoesOn /\ ~downloads
  IN /\ seeking
     /\ installFailsCritically(f, files, acts)
     /\ installed' = installed \cup files
     /\ IF acts /\ ~ends THEN abortSites ELSE removeSeekedFiles(files)
     /\ Post(WwwFinished(StopsWith(files)) \o WwwFinished(acts /\ ~ends))
     /\ IF acts THEN StopServices ELSE UNCHANGED serviceVars
     /\ seeking' = ~ends
     /\ bIsAborting' = (acts /\ ~ends)
     /\ told' = IF ends THEN "failure" ELSE told
     /\ UNCHANGED asked

-----------------------------------------------------------------------------
(* The event loop                                                          *)

(* The timer of addUrl(); it dies with the retriever.                      *)
DelayedStart ==
  /\ seeking
  /\ delayedStart
  /\ Post(Announced(wads, urls, reply))
  /\ UNCHANGED <<wwwVars, serviceVars, seekVars, historyVars>>

Delivers(call) ==
  /\ posted # <<>>
  /\ Head(posted)[1] = call

(* wwwSeekerFinished()                                                     *)
DeliverWwwFinished ==
  /\ Delivers("wwwFinished")
  /\ posted' = Tail(posted)
  /\ UNCHANGED <<retrieverVars, wwwVars, serviceVars>>
  /\ CleanUpIfAllFinished
  /\ UNCHANGED historyVars

(* fileLinkFound(), which needs a retriever.                               *)
DeliverLink ==
  /\ Delivers("linkFound")
  /\ IF seeking
     THEN /\ addUrl(Head(posted)[2], Head(posted)[3])
          /\ posted' = Tail(posted)
          /\ UNCHANGED <<wwwVars, serviceVars, seekVars, historyVars>>
     ELSE Dies

(* wadRetrieverFinished(), for finished() and for pendingUrls(): unless    *)
(* all downloads lack URLs at the time of the call, all seekers stop.      *)
(* Where only the services worked, that ends the seek before WWWSeeker is  *)
(* reached.                                                                *)
DeliverRetrieverSignal ==
  /\ Delivers("finished") \/ Delivers("pendingUrls")
  /\ IF seeking /\ Works /\ ~areAllWadsPendingUrls
     THEN /\ StopServices
          /\ IF wwwWorking \/ isAnyDownloadWorking
             THEN abortSites /\ posted' = Tail(posted) \o WwwFinished(TRUE)
             ELSE UNCHANGED wwwVars /\ posted' = Tail(posted)
     ELSE UNCHANGED <<serviceVars, wwwVars>> /\ posted' = Tail(posted)
  /\ UNCHANGED retrieverVars
  /\ CleanUpIfAllFinished
  /\ UNCHANGED historyVars

-----------------------------------------------------------------------------

DownloadEnds(f) ==
  \/ DownloadFailed(f)
  \/ \E files \in SUBSET Files :
       \/ DownloadInstalls(f, files)
       \/ InstallFailsCritically(f, files)

Deliver == DeliverWwwFinished \/ DeliverLink \/ DeliverRetrieverSignal

SomePageFinished ==
  \E s \in Sites, more, direct \in SUBSET Sites : PageFinished(s, more, direct)

SomeIdgamesPageFinished ==
  \E found \in SUBSET Urls :
    Cardinality(found) <= MaxMirrors /\ IdgamesPageFinished(found)

Next ==
  \/ \E files \in SUBSET Files, sites \in SUBSET Sites,
        idgames, archive \in BOOLEAN :
       \E direct \in SUBSET sites :
         StartSeek(files, sites, direct, idgames, archive)
  \/ StartSeekOfNothing
  \/ Destroyed
  \/ Abort
  \/ SkipIdgames
  \/ SkipWadArchive
  \/ SomePageFinished
  \/ IdgamesApiAnswers
  \/ SomeIdgamesPageFinished
  \/ ArchiveAnswers
  \/ \E f \in Files : DownloadEnds(f)
  \/ \E f \in Files, u \in Urls : DownloadRedirected(f, u)
  \/ DelayedStart
  \/ Deliver

(* Posted calls are delivered and timers fire.  Every reply ends in the    *)
(* end, by the timeouts of NetworkReplyTimeouter or, for the services, by  *)
(* those of the network, and no server redirects for ever.                 *)
Fairness ==
  /\ WF_vars(Deliver)
  /\ WF_vars(DelayedStart)
  /\ WF_vars(SomePageFinished)
  /\ WF_vars(IdgamesApiAnswers)
  /\ WF_vars(SomeIdgamesPageFinished)
  /\ WF_vars(ArchiveAnswers)
  /\ \A f \in Files : WF_vars(DownloadEnds(f))

Spec == Init /\ [][Next]_vars /\ Fairness

-----------------------------------------------------------------------------
(* Properties                                                              *)

TypeOK ==
  /\ wads \subseteq Files
  /\ urls \in [Files -> SUBSET Urls]
  /\ had \in [Files -> SUBSET Urls]
  /\ mirrors \in [Files -> SUBSET Urls]
  /\ used \subseteq Urls
  /\ reply \in [Files -> Urls \cup {NoUrl}]
  /\ timers \in Nat
  /\ silent \in BOOLEAN
  /\ wwwWorking \in BOOLEAN
  /\ seekedFiles \subseteq Files
  /\ sitesUrls \subseteq Sites
  /\ visitedUrls \subseteq Sites
  /\ networkQueries \subseteq Sites
  /\ seeking \in BOOLEAN
  /\ bIsAborting \in BOOLEAN
  /\ told \in {"none", "success", "failure"}
  /\ idgamesClients \subseteq Files
  /\ idgamesFile \in Files \cup {NoFile}
  /\ idgamesPage \in BOOLEAN
  /\ archiveQueue \subseteq Files
  /\ archiveFile \in Files \cup {NoFile}
  /\ posted \in Seq(Calls)
  /\ asked \subseteq Files
  /\ installed \subseteq Files

(* Until a seek is aborted, each of its files is either installed or still *)
(* wanted, and while sites are searched they are searched for exactly the  *)
(* wanted ones: the retriever's list, the seeker's list and what the user  *)
(* was told was installed never drift apart.                               *)
NoFileForgotten ==
  /\ seeking /\ ~bIsAborting =>
       wads \cap installed = {} /\ wads \cup installed = asked
  /\ seeking /\ wwwWorking => seekedFiles = wads

(* Whatever a seek still waits for is there to come: sites that are        *)
(* searched have a query open, a service that works has a question open,   *)
(* and wads that have URLs have a download running or a timer that will    *)
(* start one.                                                              *)
WorkGoesOn ==
  seeking =>
    /\ wwwWorking => networkQueries # {}
    /\ idgamesClients # {} => idgamesFile \in idgamesClients
    /\ archiveQueue # {} => archiveFile # NoFile
    /\ isAnyDownloadWorking => timers > 0 \/ Running(wads, reply) # {}

(* Calls that make Wadseeker look whether everything is finished.          *)
HasWakeUp(calls) ==
  \E i \in DOMAIN calls :
    calls[i] \in {<<"wwwFinished">>, <<"finished">>, <<"pendingUrls">>}

(* When nothing works any more, a call is posted (or a timer set that will *)
(* post one) that makes Wadseeker notice it and announce allDone(), unless *)
(* the downloads ended in one of the two ways nobody is told of.           *)
EndIsNoticed ==
  seeking /\ ~Works =>
    \/ HasWakeUp(posted)
    \/ timers > 0
    \/ silent

(* A call of pendingUrls(), which says that downloads wait for links, does *)
(* not stop the search for them.                                           *)
PendingUrlsStopNothing ==
  [][Delivers("pendingUrls") /\ DeliverRetrieverSignal =>
       UNCHANGED <<wwwVars, serviceVars>>]_vars

(* Wadseeker does what SeekService promises.                               *)
Promised == INSTANCE SeekService
Promise == Promised!Spec

(* Every seek ends, but for the two ways nobody is told of.                *)
SeekEnds == seeking ~> ~seeking \/ silent

(* An abort that was accepted ends the seek, with no help of the network.  *)
AbortEnds == bIsAborting ~> ~bIsAborting

=============================================================================
